---- MODULE Spec2Model ----
(***************************************************************************)
(* Model of the bayut_scrapy discovery-and-dedup pipeline and of its two   *)
(* detail fetch engines.                                                   *)
(*                                                                         *)
(*   - collection sublocation_properties is a sequence of documents,       *)
(*     collection property_details (unique index on property_id) a         *)
(*     function from property_id to its document; an UpdateOne with        *)
(*     upsert=True is one atomic step on one document;                     *)
(*   - the harvesters of bayut_ldjson_to_mongo.py (location mode, CSV      *)
(*     mode) and bayut_incremental_scraper.py;                             *)
(*   - the sequential engine of bayut_detail_scraper.py and the asyncio    *)
(*     engine of bayut_detail_scraper_async.py.                            *)
(***************************************************************************)
EXTENDS Integers, Sequences, FiniteSets, TLC

VARIABLES
    now,        \* wall clock read by datetime.utcnow() / datetime.now()
    props,      \* collection sublocation_properties: sequence of Item documents
    details,    \* collection property_details: property_id -> DetailRecord
    hrun,       \* the runs of bayut_ldjson_to_mongo.py (location / CSV mode)
    inc,        \* the run of bayut_incremental_scraper.py
    eng,        \* the run of bayut_detail_scraper.py (sequential engine)
    asy,        \* the run of bayut_detail_scraper_async.py (asyncio engine)
    netlog,     \* history: number of detail GETs issued per property id
    fed         \* history: appearances pushed per property id, in store order

vars == <<now, props, details, hrun, inc, eng, asy, netlog, fed>>

(***************************************************************************)
(* Bounds of the model.                                                    *)
(***************************************************************************)
MaxTime          == 1    \* clock values 0..MaxTime
MaxItemsPerPage  == 1    \* itemListElement entries of one listing page
MaxFeed          == 102  \* observations fed in the appearance-cap scenario

(***************************************************************************)
(* Program constants.                                                      *)
(***************************************************************************)
APPEARANCES_SLICE == 100         \* "$slice": -100
HASH_BASE_LIMIT   == 256         \* [:256]

NoneVal == "None"                \* Python None / absent field
NoUrl   == <<>>                  \* a url that is None or empty (`or None`)

Min(a, b) == IF a < b THEN a ELSE b

(***************************************************************************)
(* Identity resolver.  A URL is a sequence of tokens; "details-" and       *)
(* ".html" stand for those literal substrings, a digit token for one       *)
(* decimal digit, any other token for text that the pattern ignores.       *)
(***************************************************************************)
Digits == {"0", "1", "2", "3", "4", "5", "6", "7", "8", "9"}

RECURSIVE Flatten(_)
Flatten(s) == IF s = <<>> THEN "" ELSE Head(s) \o Flatten(Tail(s))

RECURSIVE DigitRun(_, _)
DigitRun(u, j) ==
    IF j <= Len(u) /\ u[j] \in Digits THEN 1 + DigitRun(u, j + 1) ELSE 0

\* positions where r"details-(\d+)\.html" matches
DETAIL_ID_RE(u) ==
    { i \in 1..Len(u) :
        /\ u[i] = "details-"
        /\ DigitRun(u, i + 1) >= 1
        /\ i + DigitRun(u, i + 1) + 1 <= Len(u)
        /\ u[i + DigitRun(u, i + 1) + 1] = ".html" }

property_id_from_url(u) ==
    IF u = NoUrl THEN NoneVal
    ELSE IF DETAIL_ID_RE(u) = {} THEN NoneVal
    ELSE LET i == CHOOSE k \in DETAIL_ID_RE(u) : \A m \in DETAIL_ID_RE(u) : k <= m
         IN  Flatten(SubSeq(u, i + 1, i + DigitRun(u, i + 1)))

\* hashlib.md5(...).hexdigest(): an injective digest of its argument
Md5Hex(base) == "<" \o Flatten(base) \o ">"

\* json.dumps(main) of an item without url
JsonDumps(item) == <<"{", "price:", ToString(item.price), "}">>

\* a fallback key made of the digits of the url, without prefix or digest
HashKey_UrlDigits(item) ==
    LET full == IF item.url # NoUrl THEN item.url
                ELSE JsonDumps(item)
    IN  Flatten(SelectSeq(full, LAMBDA t : t \in Digits))

HashKey(item) ==
    LET full == IF item.url # NoUrl THEN item.url
                ELSE JsonDumps(item)
        base == SubSeq(full, 1, Min(Len(full), HASH_BASE_LIMIT))
    IN  "hash_" \o Md5Hex(base)

PidOf(item) ==
    LET pid == property_id_from_url(item.url)
    IN  IF pid = NoneVal THEN HashKey(item) ELSE pid

\* doc_from_item: one itemListElement entry -> Mongo-ready document
doc_from_item(item, pos, page_num, fetched_at, location, city_sub) ==
    [ upsert_key   |-> PidOf(item),
      property_id  |-> PidOf(item),
      position     |-> pos,
      detailed_url |-> item.url,
      page_number  |-> page_num,
      fetched_at   |-> fetched_at,
      price        |-> item.price,
      purpose      |-> "for-sale",
      location     |-> location,
      city_sub     |-> city_sub ]

(***************************************************************************)
(* Raw items a listing page can carry.                                     *)
(***************************************************************************)
UrlA == <<"/property/", "details-", "1", ".html">>
UrlB == <<"/property/", "details-", "2", ".html">>

RawItems ==
    { [url |-> UrlA,  price |-> 10],
      [url |-> NoUrl, price |-> 20] }

\* the itemListElement arrays a feed serving `site` can put on a page
PagesOf(site, per_page) ==
    UNION { [1..n -> site] : n \in 1..Min(per_page, MaxItemsPerPage) }

PageContents == PagesOf(RawItems, MaxItemsPerPage)

(***************************************************************************)
(* Dedup store: sublocation_properties.                                    *)
(***************************************************************************)
\* find_one({"property_id": pid}): index of the first matching row, 0 if none
FindIdx(coll, pid) ==
    IF \E i \in 1..Len(coll) : coll[i].property_id = pid
    THEN CHOOSE i \in 1..Len(coll) :
            /\ coll[i].property_id = pid
            /\ \A j \in 1..(i - 1) : coll[j].property_id # pid
    ELSE 0

\* a slice that keeps the oldest k entries ("$slice": k)
Slice_KeepOldest(s, k) == IF Len(s) <= k THEN s ELSE SubSeq(s, 1, k)

\* "$slice": -k applied after "$push"
Slice(s, k) == IF Len(s) <= k THEN s ELSE SubSeq(s, Len(s) - k + 1, Len(s))

\* the values held by an array field
Range(s) == { s[k] : k \in 1..Len(s) }

\* "$push" in place of "$addToSet": appends whether present or not
AddToSet_Push(arr, x) == Append(arr, x)

\* "$addToSet": appends x to the array unless the array holds it
AddToSet(arr, x) == IF x \in Range(arr) THEN arr ELSE Append(arr, x)

\* d.get("location") or f"{city}/{sublocation}"
location_str(d) == IF d.location # NoneVal THEN d.location ELSE d.city_sub

Appearance(d) ==
    [ page_number |-> d.page_number,
      position    |-> d.position,
      location    |-> location_str(d),
      price       |-> d.price,
      scraped_at  |-> d.fetched_at ]

\* the document created by an upsert that matched nothing
\* ($set, $addToSet, $push and $setOnInsert of bulk_upsert_items)
InsertedItem(d) ==
    [ property_id       |-> d.upsert_key,
      detailed_url      |-> d.detailed_url,
      last_seen         |-> d.fetched_at,
      last_page         |-> d.page_number,
      last_location     |-> location_str(d),
      current_price     |-> d.price,
      purpose           |-> d.purpose,
      locations_seen    |-> AddToSet(<<>>, location_str(d)),
      appearances       |-> Slice(<<Appearance(d)>>, APPEARANCES_SLICE),
      first_seen        |-> d.fetched_at,
      first_page        |-> d.page_number,
      first_location    |-> location_str(d),
      detail_scraped    |-> FALSE,
      detail_scraped_at |-> NoneVal,
      created_at        |-> d.fetched_at ]

\* an update whose creation fields sit in "$set"
UpdatedItem_Restamp(row, d) ==
    [ row EXCEPT
        !.last_seen      = d.fetched_at,
        !.last_location  = location_str(d),
        !.locations_seen = AddToSet(@, location_str(d)),
        !.appearances    = Slice(Append(@, Appearance(d)), APPEARANCES_SLICE),
        !.first_page     = d.page_number,
        !.first_location = location_str(d) ]

\* the update applied to a matched document ($set, $addToSet, $push)
UpdatedItem(row, d) ==
    [ row EXCEPT
        !.property_id    = d.property_id,
        !.detailed_url   = d.detailed_url,
        !.last_seen      = d.fetched_at,
        !.last_page      = d.page_number,
        !.last_location  = location_str(d),
        !.current_price  = d.price,
        !.purpose        = d.purpose,
        !.locations_seen = AddToSet(@, location_str(d)),
        !.appearances    = Slice(Append(@, Appearance(d)), APPEARANCES_SLICE) ]

\* an UpdateOne that inserts without looking for a match
bulk_upsert_items_AlwaysInsert(coll, d) == Append(coll, InsertedItem(d))

\* one UpdateOne(..., upsert=True) of bulk_upsert_items
bulk_upsert_items(coll, d) ==
    LET i == FindIdx(coll, d.upsert_key)
    IN  IF i = 0 THEN Append(coll, InsertedItem(d))
        ELSE [coll EXCEPT ![i] = UpdatedItem(coll[i], d)]

\* history of the appearances pushed for one id
FedAfter(d) ==
    IF d.upsert_key \in DOMAIN fed
    THEN [fed EXCEPT ![d.upsert_key] = Append(@, Appearance(d))]
    ELSE [k \in DOMAIN fed \cup {d.upsert_key} |->
            IF k = d.upsert_key THEN <<Appearance(d)>> ELSE fed[k]]

(***************************************************************************)
(* Harvester runs of bayut_ldjson_to_mongo.py.  A run walks the pages      *)
(* page..end of one listing feed.  In CSV mode it counts consecutive       *)
(* empty pages and stops at CSV_EMPTY_LIMIT; in location mode it has no    *)
(* such counter.                                                           *)
(***************************************************************************)
Runs == {"h1", "h2"}

CSV_EMPTY_LIMIT == 5             \* if consecutive_empty_pages >= 5: break

\* ways a page can yield nothing: HTTP status # 200, body under 1000 bytes,
\* no LD+JSON, no itemListElement entries, exception
EmptyOutcomes == {"non200", "small", "noldjson", "noitems", "error"}

HarvestRun(mode, location, city_sub, end, per_page, site) ==
    [ mode     |-> mode,
      site     |-> site,         \* raw items the listing feed serves
      per_page |-> per_page,     \* most entries the feed puts on a page
      location |-> location,
      city_sub |-> city_sub,
      page     |-> 1,
      end      |-> end,
      pc       |-> "fetch",
      ops      |-> {},
      empty    |-> 0,
      empty_streak |-> 0 ]       \* history: pages in a row without items

\* the for loop is still running: range not exhausted, no break
HLoopOn(r) ==
    /\ r.pc = "fetch"
    /\ r.page <= r.end
    /\ (r.mode = "csv" => r.empty < CSV_EMPTY_LIMIT)

\* a page that yields no items: `continue` (CSV mode counts it)
HPageEmpty(h) ==
    /\ HLoopOn(hrun[h])
    /\ \E o \in EmptyOutcomes :
          /\ (hrun[h].mode = "location" => o # "small")
          /\ hrun' = [hrun EXCEPT
                ![h].page  = @ + 1,
                ![h].empty_streak = @ + 1,
                ![h].empty = IF hrun[h].mode = "csv" THEN @ + 1 ELSE @]
    /\ UNCHANGED <<now, props, details, inc, eng, asy, netlog, fed>>

\* a page with items: fetched_at = datetime.utcnow(), one doc per element
HPageItems(h) ==
    /\ HLoopOn(hrun[h])
    /\ \E content \in PagesOf(hrun[h].site, hrun[h].per_page) :
          /\ hrun' = [hrun EXCEPT
                ![h].ops   = { doc_from_item(content[k], k, hrun[h].page, now,
                                             hrun[h].location, hrun[h].city_sub)
                               : k \in DOMAIN content },
                ![h].empty = 0,
                ![h].empty_streak = 0,
                ![h].pc    = "write"]
    /\ UNCHANGED <<now, props, details, inc, eng, asy, netlog, fed>>

\* coll.bulk_write(ops, ordered=False): the server applies the UpdateOne
\* operations one at a time, in no guaranteed order
HWrite(h) ==
    /\ hrun[h].pc = "write"
    /\ \E d \in hrun[h].ops :
          /\ props' = bulk_upsert_items(props, d)
          /\ fed' = FedAfter(d)
          /\ hrun' = [hrun EXCEPT
                ![h].ops  = @ \ {d},
                ![h].pc   = IF hrun[h].ops = {d} THEN "fetch" ELSE "write",
                ![h].page = IF hrun[h].ops = {d} THEN @ + 1 ELSE @]
    /\ UNCHANGED <<now, details, inc, eng, asy, netlog>>

\* end of the page loop
HStop(h) ==
    /\ hrun[h].pc = "fetch"
    /\ ~HLoopOn(hrun[h])
    /\ hrun' = [hrun EXCEPT ![h].pc = "done"]
    /\ UNCHANGED <<now, props, details, inc, eng, asy, netlog, fed>>

\* time passes
Tick ==
    /\ now < MaxTime
    /\ now' = now + 1
    /\ UNCHANGED <<props, details, hrun, inc, eng, asy, netlog, fed>>

(***************************************************************************)
(* Incremental harvester: bayut_incremental_scraper.py.  The listing feed  *)
(* is a function from page number to what the site returns for that page:  *)
(* status "ok" with a sequence of raw items, or status "error" for a       *)
(* response that process_page rejects (status # 200, short body, no        *)
(* LD+JSON, exception).                                                    *)
(***************************************************************************)
CONSECUTIVE_EXISTING_LIMIT == 2  \* stop after this many consecutive existing

\* _bulk_insert_properties: the created document
IncInsertedItem(d) ==
    [ InsertedItem(d) EXCEPT !.detail_scraped = FALSE ]

\* _bulk_insert_properties: "$set" carries "detail_scraped": False
IncUpdatedItem(row, d) ==
    [ UpdatedItem(row, d) EXCEPT !.detail_scraped = FALSE ]

\* one UpdateOne(..., upsert=True) of _bulk_insert_properties
bulk_insert_properties(coll, d) ==
    LET i == FindIdx(coll, d.upsert_key)
    IN  IF i = 0 THEN Append(coll, IncInsertedItem(d))
        ELSE [coll EXCEPT ![i] = IncUpdatedItem(coll[i], d)]

\* property_exists
property_exists(coll, pid) == FindIdx(coll, pid) # 0

\* extract_property_from_item
extract_property_from_item(item, pos, page_num, t) ==
    doc_from_item(item, pos, page_num, t, "UAE", "/")

IncRun(stream, max_pages) ==
    [ pc                   |-> "loop",
      stream               |-> stream,
      max_pages            |-> max_pages,
      page_num             |-> 1,
      should_stop          |-> FALSE,
      shutdown             |-> FALSE,
      stats_consecutive    |-> 0,     \* self.stats['consecutive_existing']
      pages_scraped        |-> 0,
      new_properties       |-> 0,
      existing_properties  |-> 0,
      k                    |-> 0,     \* elements of the page already handled
      new_docs             |-> {},    \* new_properties of _process_properties
      consecutive_existing |-> 0,     \* local of _process_properties
      res_new              |-> 0,
      res_existing         |-> 0,
      hist                 |-> <<>>,  \* history: page_result of each page
      known_streak         |-> 0,     \* history: known items seen in a row,
                                      \* page ends not counted as breaks
      reason               |-> NoneVal ]

IncPage(r) == r.stream[r.page_num]
IncElts(r) == IncPage(r).elts

\* while page_num <= max_pages and not should_stop and not SHUTDOWN_REQUESTED
IncLoopOn(r) ==
    /\ r.pc = "loop"
    /\ r.page_num <= r.max_pages
    /\ ~r.should_stop
    /\ ~r.shutdown

\* run() that never acts on stats['consecutive_existing']
IncAfterPage_NoStop(r, new, existing) ==
    [r EXCEPT !.pages_scraped       = @ + 1,
              !.new_properties      = @ + new,
              !.existing_properties = @ + existing,
              !.hist = Append(@, [new |-> new, existing |-> existing]),
              !.page_num = @ + 1,
              !.pc = "loop"]

\* the tail of the while body of run(), after process_page returned
IncAfterPage(r, new, existing) ==
    LET r1 == [r EXCEPT !.pages_scraped       = @ + 1,
                        !.new_properties      = @ + new,
                        !.existing_properties = @ + existing,
                        !.hist = Append(@, [new |-> new, existing |-> existing])]
    IN  IF r1.stats_consecutive >= CONSECUTIVE_EXISTING_LIMIT
        THEN [r1 EXCEPT !.should_stop = TRUE,
                        !.pc          = "done",
                        !.reason      = "consecutive_existing"]
        ELSE [r1 EXCEPT !.page_num = @ + 1, !.pc = "loop"]

\* a run that gives up at the first page that yields nothing
IncPageNothing_Aborts ==
    /\ inc.pc = "loop"
    /\ IncLoopOn(inc)
    /\ (IncPage(inc).status = "error" \/ IncElts(inc) = <<>>)
    /\ inc' = [inc EXCEPT !.pc = "done", !.reason = "completed"]
    /\ UNCHANGED <<now, props, details, hrun, eng, asy, netlog, fed>>

\* process_page returns {'new': 0, 'existing': 0, ...} without touching the
\* store: rejected response, or a page without itemListElement entries
IncPageNothing ==
    /\ inc.pc = "loop"
    /\ IncLoopOn(inc)
    /\ (IncPage(inc).status = "error" \/ IncElts(inc) = <<>>)
    /\ inc' = IncAfterPage(inc, 0, 0)
    /\ UNCHANGED <<now, props, details, hrun, eng, asy, netlog, fed>>

\* process_page reaches the item loop of _process_properties
IncPageBegin ==
    /\ inc.pc = "loop"
    /\ IncLoopOn(inc)
    /\ IncPage(inc).status = "ok"
    /\ IncElts(inc) # <<>>
    /\ inc' = [inc EXCEPT !.pc = "items", !.k = 0, !.new_docs = {},
                          !.consecutive_existing = 0,
                          !.res_new = 0, !.res_existing = 0]
    /\ UNCHANGED <<now, props, details, hrun, eng, asy, netlog, fed>>

\* an item loop whose break throws the collected new documents away
IncItem_BreakDrops ==
    /\ inc.pc = "items"
    /\ LET pos  == inc.k + 1
           d    == extract_property_from_item(IncElts(inc)[pos], pos,
                                              inc.page_num, now)
           last == pos = Len(IncElts(inc))
       IN  IF property_exists(props, d.property_id)
           THEN LET c == inc.consecutive_existing + 1
                IN  inc' = [inc EXCEPT
                        !.k = pos,
                        !.known_streak = @ + 1,
                        !.res_existing = @ + 1,
                        !.consecutive_existing = c,
                        !.new_docs =
                            IF c >= CONSECUTIVE_EXISTING_LIMIT THEN {} ELSE @,
                        !.stats_consecutive =
                            IF c >= CONSECUTIVE_EXISTING_LIMIT THEN c ELSE @,
                        !.pc = IF c >= CONSECUTIVE_EXISTING_LIMIT \/ last
                               THEN "write" ELSE "items"]
           ELSE inc' = [inc EXCEPT
                        !.k = pos,
                        !.known_streak = 0,
                        !.new_docs = @ \cup {d},
                        !.res_new = @ + 1,
                        !.consecutive_existing = 0,
                        !.pc = IF last THEN "write" ELSE "items"]
    /\ UNCHANGED <<now, props, details, hrun, eng, asy, netlog, fed>>

\* one iteration of `for el in elts`
IncItem ==
    /\ inc.pc = "items"
    /\ LET pos  == inc.k + 1
           d    == extract_property_from_item(IncElts(inc)[pos], pos,
                                              inc.page_num, now)
           last == pos = Len(IncElts(inc))
       IN  IF property_exists(props, d.property_id)
           THEN LET c == inc.consecutive_existing + 1
                IN  inc' = [inc EXCEPT
                        !.k = pos,
                        !.known_streak = @ + 1,
                        !.res_existing = @ + 1,
                        !.consecutive_existing = c,
                        !.stats_consecutive =
                            IF c >= CONSECUTIVE_EXISTING_LIMIT THEN c ELSE @,
                        !.pc = IF c >= CONSECUTIVE_EXISTING_LIMIT \/ last
                               THEN "write" ELSE "items"]
           ELSE inc' = [inc EXCEPT
                        !.k = pos,
                        !.known_streak = 0,
                        !.new_docs = @ \cup {d},
                        !.res_new = @ + 1,
                        !.consecutive_existing = 0,
                        !.pc = IF last THEN "write" ELSE "items"]
    /\ UNCHANGED <<now, props, details, hrun, eng, asy, netlog, fed>>

\* self.properties_coll.bulk_write(ops, ordered=False), one operation
IncWrite ==
    /\ inc.pc = "write"
    /\ \E d \in inc.new_docs :
          /\ props' = bulk_insert_properties(props, d)
          /\ fed' = FedAfter(d)
          /\ inc' = [inc EXCEPT !.new_docs = @ \ {d}]
    /\ UNCHANGED <<now, details, hrun, eng, asy, netlog>>

\* _process_properties returns; run() accounts for the page
IncPageDone ==
    /\ inc.pc = "write"
    /\ inc.new_docs = {}
    /\ inc' = IncAfterPage(
                [inc EXCEPT !.stats_consecutive =
                    IF inc.consecutive_existing >= CONSECUTIVE_EXISTING_LIMIT
                    THEN inc.consecutive_existing ELSE @],
                inc.res_new, inc.res_existing)
    /\ UNCHANGED <<now, props, details, hrun, eng, asy, netlog, fed>>

\* the while condition fails: the run returns its result
IncFinish ==
    /\ inc.pc = "loop"
    /\ ~IncLoopOn(inc)
    /\ inc' = [inc EXCEPT
                !.pc = "done",
                !.reason = IF inc.should_stop THEN "consecutive_existing"
                           ELSE IF inc.shutdown THEN "shutdown"
                           ELSE "completed"]
    /\ UNCHANGED <<now, props, details, hrun, eng, asy, netlog, fed>>

\* signal_handler of the incremental scraper
IncShutdown ==
    /\ inc.pc \in {"loop", "items", "write"}
    /\ ~inc.shutdown
    /\ inc' = [inc EXCEPT !.shutdown = TRUE]
    /\ UNCHANGED <<now, props, details, hrun, eng, asy, netlog, fed>>

IdleInc == [pc |-> "off"]
IdleEng == [pc |-> "off"]
IdleAsy == [pc |-> "off"]

(***************************************************************************)
(* Detail records: property_details.                                       *)
(***************************************************************************)
\* update_one({'property_id': pid}, {'$set': fields}, upsert=True): the
\* fields named by the update are written, every other field of an
\* existing record is kept
NewDetail(pid) ==
    [ property_id        |-> pid,
      url                |-> NoUrl,
      scraped_at         |-> 0,
      extraction_success |-> FALSE,
      bot_challenge      |-> FALSE,     \* field absent
      extracted_data     |-> NoneVal,   \* field absent
      error              |-> NoneVal ]  \* field absent

FailureSet(row, url, t, msg) ==
    [row EXCEPT !.url = url, !.scraped_at = t,
                !.extraction_success = FALSE, !.error = msg]

\* a challenge record that is stored without its bot_challenge flag
ChallengeSet_NoFlag(row, url, t, data) ==
    [row EXCEPT !.url = url, !.scraped_at = t,
                !.extraction_success = FALSE,
                !.extracted_data = data]

ChallengeSet(row, url, t, data) ==
    [row EXCEPT !.url = url, !.scraped_at = t,
                !.extraction_success = FALSE, !.bot_challenge = TRUE,
                !.extracted_data = data]

SuccessSet(row, url, t, data) ==
    [row EXCEPT !.url = url, !.scraped_at = t,
                !.extraction_success = TRUE, !.extracted_data = data]

\* the collection is kept as a function from property_id to its record
\* (create_index('property_id', unique=True))
DetailRow(coll, pid) ==
    IF pid \in DOMAIN coll THEN coll[pid] ELSE NewDetail(pid)

PutDetail(coll, row) ==
    [ k \in DOMAIN coll \cup {row.property_id} |->
        IF k = row.property_id THEN row ELSE coll[k] ]

\* a check that never finds a successful record
HasSuccess_Never(coll, pid) == FALSE

\* a check that looks at the wrong field
HasSuccess_WrongField(coll, pid) ==
    pid \in DOMAIN coll /\ coll[pid].bot_challenge

\* find_one({'property_id': pid, 'extraction_success': True})
HasSuccess(coll, pid) ==
    pid \in DOMAIN coll /\ coll[pid].extraction_success

\* history: one more GET issued for the detail page of pid
NetAfter(log, pid) ==
    [ k \in DOMAIN log \cup {pid} |->
        IF k \in DOMAIN log
        THEN (IF k = pid THEN log[k] + 1 ELSE log[k])
        ELSE 1 ]

\* an update of the Item that matches no document
MarkDetailScraped_NoMatch(coll, pid, t) == coll

\* properties_coll.update_one({'property_id': pid},
\*     {'$set': {'detail_scraped': True, 'detail_scraped_at': now}})
MarkDetailScraped(coll, pid, t) ==
    IF FindIdx(coll, pid) = 0 THEN coll
    ELSE [coll EXCEPT ![FindIdx(coll, pid)].detail_scraped = TRUE,
                      ![FindIdx(coll, pid)].detail_scraped_at = t]

\* query = {'detail_scraped': {'$ne': True},
\*          'detailed_url': {'$exists': True, '$ne': None}}
RECURSIVE SelectPending(_)
SelectPending(coll) ==
    IF coll = <<>> THEN <<>>
    ELSE IF ~Head(coll).detail_scraped /\ Head(coll).detailed_url # NoUrl
         THEN <<Head(coll)>> \o SelectPending(Tail(coll))
         ELSE SelectPending(Tail(coll))

\* find(query).skip(skip).limit(limit); limit 0 stands for None
PendingCursor(coll, limit, skip) ==
    LET all  == SelectPending(coll)
        rest == IF skip >= Len(all) THEN <<>> ELSE SubSeq(all, skip + 1, Len(all))
    IN  IF limit > 0 /\ limit < Len(rest) THEN SubSeq(rest, 1, limit) ELSE rest

(***************************************************************************)
(* What a detail GET followed by extraction can come to.                   *)
(*   fail          no HTML (status # 200 or request exception)             *)
(*   challenge     HTML fetched, _detect_bot_challenge returns True        *)
(*   normal        HTML fetched, extraction complete                       *)
(*   raise_extract extract_all raises                                      *)
(*   raise_late    the record is written and the Item marked, then the     *)
(*                 summary line raises (price that is not a number)        *)
(*   storage_lost  the record is written, then the connection to the       *)
(*                 store is lost: the update of the Item raises and so     *)
(*                 does the update of the except clause                    *)
(***************************************************************************)
Outcomes ==
    {"fail", "challenge", "normal", "raise_extract", "raise_late", "storage_lost"}

(***************************************************************************)
(* Sequential engine: bayut_detail_scraper.py.                             *)
(***************************************************************************)
BOT_DETECTION_THRESHOLD == 3     \* consecutive challenges before cooldown
INITIAL_COOLDOWN        == 900   \* 15 * 60
MaxRuns                 == 2     \* processes started one after the other

\* int(current_cooldown * COOLDOWN_MULTIPLIER), COOLDOWN_MULTIPLIER = 1.5
NextCooldown(c) == (c * 3) \div 2

\* BayutDetailScraper.__init__ for a process whose site answers from env
EngProcessState(env, limit, skip, runs) ==
    [ pc                     |-> "ready",
      env                    |-> env,
      limit                  |-> limit,
      skip                   |-> skip,
      runs                   |-> runs,
      shutdown               |-> FALSE,   \* SHUTDOWN_REQUESTED
      cursor                 |-> <<>>,
      idx                    |-> 1,
      total                  |-> 0,
      processed              |-> 0,
      success                |-> 0,
      failed                 |-> 0,
      skipped                |-> 0,
      bot_challenges         |-> 0,
      consecutive_challenges |-> 0,
      current_cooldown       |-> INITIAL_COOLDOWN,
      cooldown_count         |-> 0,
      challenges_at_reset    |-> 0,       \* history: bot_challenges at the
                                          \* latest Normal or cooldown expiry
      cls                    |-> <<>>,    \* history: classifications made
      cdlog                  |-> <<>> ]   \* history: cooldowns started

\* run(): count, open the cursor
EngStart ==
    /\ eng.pc = "ready"
    /\ LET cur == PendingCursor(props, eng.limit, eng.skip)
           cnt == Len(SelectPending(props))
       IN  eng' = [eng EXCEPT
                !.pc     = "loop",
                !.cursor = cur,
                !.idx    = 1,
                !.total  = IF eng.limit > 0 THEN Min(cnt, eng.limit) ELSE cnt]
    /\ UNCHANGED <<now, props, details, hrun, inc, asy, netlog, fed>>

\* the for loop of run() has a next document and no shutdown was seen
EngLoopOn(e) == e.pc = "loop" /\ e.idx <= Len(e.cursor) /\ ~e.shutdown

\* _handle_cooldown up to the interruptible sleep
EnterCooldown(e) ==
    [e EXCEPT !.cooldown_count = @ + 1,
              !.cdlog = Append(@, [duration |-> e.current_cooldown,
                                   at       |-> Len(e.cls)]),
              !.pc = "cooldown"]

\* a failed fetch that is taken for the end of a challenge streak
OnTransportFailure_Resets(e) ==
    [e EXCEPT !.failed = @ + 1, !.consecutive_challenges = 0]

\* process_property after fetch_property_html returned no HTML
OnTransportFailure(e) == [e EXCEPT !.failed = @ + 1]

\* an extraction error that the procedure lets through to its caller
OnExtractionError_Aborts(e) == [e EXCEPT !.failed = @ + 1, !.pc = "crashed"]

\* the except clause of process_property after extract_all raised
OnExtractionError(e) == [e EXCEPT !.failed = @ + 1]

\* process_property after a challenge was detected
OnChallenge(e) ==
    LET e1 == [e EXCEPT !.consecutive_challenges = @ + 1,
                        !.bot_challenges = @ + 1,
                        !.cls = Append(@, "Challenge")]
    IN  IF e1.consecutive_challenges >= BOT_DETECTION_THRESHOLD
        THEN EnterCooldown(e1) ELSE e1

\* a normal page that leaves the challenge streak as it is
OnNormal_KeepsStreak(e) ==
    [e EXCEPT !.challenges_at_reset = e.bot_challenges,
              !.cls = Append(@, "Normal")]

\* process_property after a page was classified normal
OnNormal(e) ==
    [e EXCEPT !.consecutive_challenges = 0,
              !.challenges_at_reset = e.bot_challenges,
              !.cls = Append(@, "Normal")]

\* one iteration of the for loop: process_property(property_doc)
EngProcess ==
    /\ EngLoopOn(eng)
    /\ LET doc == eng.cursor[eng.idx]
           pid == doc.property_id
           url == doc.detailed_url
           row == DetailRow(details, pid)
           e0  == [eng EXCEPT !.processed = @ + 1, !.idx = @ + 1]
       IN  IF url = NoUrl
           THEN /\ eng' = e0
                /\ UNCHANGED <<props, details, netlog>>
           ELSE IF HasSuccess(details, pid)
           THEN /\ eng' = [e0 EXCEPT !.skipped = @ + 1]
                /\ UNCHANGED <<props, details, netlog>>
           ELSE \E o \in eng.env :
                /\ netlog' = NetAfter(netlog, pid)
                /\ CASE o = "fail" ->
                        /\ eng' = OnTransportFailure(e0)
                        /\ details' = PutDetail(details,
                              FailureSet(row, url, now, "Failed to fetch HTML"))
                        /\ props' = props
                   [] o = "raise_extract" ->
                        /\ eng' = OnExtractionError(e0)
                        /\ details' = PutDetail(details,
                              FailureSet(row, url, now, "extraction error"))
                        /\ props' = props
                   [] o = "challenge" ->
                        /\ eng' = OnChallenge(e0)
                        /\ details' = PutDetail(details,
                              ChallengeSet(row, url, now, "partial"))
                        /\ props' = props
                   [] o = "normal" ->
                        /\ eng' = [OnNormal(e0) EXCEPT !.success = @ + 1]
                        /\ details' = PutDetail(details,
                              SuccessSet(row, url, now, "full"))
                        /\ props' = MarkDetailScraped(props, pid, now)
                   [] o = "raise_late" ->
                        /\ eng' = [OnNormal(e0) EXCEPT !.success = @ + 1,
                                                       !.failed = @ + 1]
                        /\ details' = PutDetail(details,
                              FailureSet(SuccessSet(row, url, now, "full"),
                                         url, now, "format error"))
                        /\ props' = MarkDetailScraped(props, pid, now)
                   [] o = "storage_lost" ->
                        /\ eng' = [OnNormal(e0) EXCEPT !.failed = @ + 1,
                                                       !.pc = "crashed"]
                        /\ details' = PutDetail(details,
                              SuccessSet(row, url, now, "full"))
                        /\ props' = props
    /\ UNCHANGED <<now, hrun, inc, asy, fed>>

\* a cooldown that ends without resetting the counter
EngCooldownExpire_NoReset ==
    /\ eng.pc = "cooldown"
    /\ ~eng.shutdown
    /\ eng' = [eng EXCEPT !.current_cooldown = NextCooldown(@),
                          !.challenges_at_reset = eng.bot_challenges,
                          !.pc = "loop"]
    /\ UNCHANGED <<now, props, details, hrun, inc, asy, netlog, fed>>

\* the sleep of _handle_cooldown runs to its end without a shutdown
EngCooldownExpire ==
    /\ eng.pc = "cooldown"
    /\ ~eng.shutdown
    /\ eng' = [eng EXCEPT !.current_cooldown = NextCooldown(@),
                          !.consecutive_challenges = 0,
                          !.challenges_at_reset = eng.bot_challenges,
                          !.pc = "loop"]
    /\ UNCHANGED <<now, props, details, hrun, inc, asy, netlog, fed>>

\* a cooldown that is cut short and still finishes its bookkeeping
EngCooldownInterrupted_Completes ==
    /\ eng.pc = "cooldown"
    /\ eng.shutdown
    /\ eng' = [eng EXCEPT !.current_cooldown = NextCooldown(@),
                          !.consecutive_challenges = 0,
                          !.pc = "loop"]
    /\ UNCHANGED <<now, props, details, hrun, inc, asy, netlog, fed>>

\* the sleep of _handle_cooldown is cut short: return False
EngCooldownInterrupted ==
    /\ eng.pc = "cooldown"
    /\ eng.shutdown
    /\ eng' = [eng EXCEPT !.pc = "loop"]
    /\ UNCHANGED <<now, props, details, hrun, inc, asy, netlog, fed>>

\* signal_handler
EngShutdown ==
    /\ eng.pc \in {"loop", "cooldown"}
    /\ ~eng.shutdown
    /\ eng' = [eng EXCEPT !.shutdown = TRUE]
    /\ UNCHANGED <<now, props, details, hrun, inc, asy, netlog, fed>>

\* the for loop ends: cursor exhausted or shutdown seen
EngFinish ==
    /\ eng.pc = "loop"
    /\ ~EngLoopOn(eng)
    /\ eng' = [eng EXCEPT !.pc = "done"]
    /\ UNCHANGED <<now, props, details, hrun, inc, asy, netlog, fed>>

\* the script is started again (a new process, new counters)
EngRestart ==
    /\ eng.pc \in {"done", "crashed"}
    /\ eng.runs < MaxRuns
    /\ eng' = EngProcessState(eng.env, eng.limit, eng.skip, eng.runs + 1)
    /\ UNCHANGED <<now, props, details, hrun, inc, asy, netlog, fed>>

(***************************************************************************)
(* Concurrent engine: bayut_detail_scraper_async.py.  One event loop runs  *)
(* the tasks of a batch; a task gives up control only at an await, so a    *)
(* step of a task is the code between two awaits.  Position of a task:     *)
(*   find       awaiting find_one for an existing successful record        *)
(*   fetch      GET outstanding, then extraction in the executor           *)
(*   challenge  challenge record sent to the store, awaiting the reply     *)
(*   stored     success record sent to the store, awaiting the reply       *)
(*   mark       update of the Item sent to the store, awaiting the reply   *)
(*   cooldown   inside asyncio.sleep(current_cooldown)                     *)
(*   done       the coroutine has returned or raised                       *)
(***************************************************************************)
ASYNC_BOT_DETECTION_THRESHOLD == 5   \* BOT_DETECTION_THRESHOLD of the module
MaxBatch == 3                        \* tasks of one batch
                                     \* (MAX_CONCURRENT_REQUESTS, scaled)

\* process_property(prop) as gather() first schedules it
AsyTask(doc) ==
    [ pc  |-> "find",
      pid |-> doc.property_id,
      url |-> doc.detailed_url,
      o   |-> NoneVal ]          \* history: what the procedure came to

\* BayutAsyncDetailScraper.__init__ for a process whose site answers from env
AsyProcessState(env, limit, skip, runs) ==
    [ pc                     |-> "ready",
      env                    |-> env,
      limit                  |-> limit,
      skip                   |-> skip,
      runs                   |-> runs,
      shutdown               |-> FALSE,   \* SHUTDOWN_REQUESTED
      shutdown_seen          |-> FALSE,   \* history: run() has read the flag
                                          \* as set
      in_cooldown            |-> FALSE,   \* IN_COOLDOWN
      cursor                 |-> <<>>,
      idx                    |-> 1,
      batch                  |-> <<>>,
      tasks                  |-> <<>>,
      after                  |-> "collect",
      total                  |-> 0,
      processed              |-> 0,
      success                |-> 0,
      failed                 |-> 0,
      skipped                |-> 0,
      bot_challenges         |-> 0,
      cooldowns              |-> 0,
      consecutive_challenges |-> 0,
      current_cooldown       |-> INITIAL_COOLDOWN,
      cooldown_count         |-> 0,
      challenges_at_reset    |-> 0,       \* history: bot_challenges at the
                                          \* latest Normal or cooldown expiry
      cdlog                  |-> <<>> ]   \* history: cooldowns started

\* run(): count, open the cursor
AsyStart ==
    /\ asy.pc = "ready"
    /\ LET cur == PendingCursor(props, asy.limit, asy.skip)
           cnt == Len(SelectPending(props))
       IN  asy' = [asy EXCEPT
                !.pc     = "collect",
                !.cursor = cur,
                !.idx    = 1,
                !.total  = IF asy.limit > 0 THEN Min(cnt, asy.limit) ELSE cnt]
    /\ UNCHANGED <<now, props, details, hrun, inc, eng, netlog, fed>>

\* process_batch(batch) up to the await of gather
Launch(a, docs, after) ==
    [a EXCEPT !.pc    = "gather",
              !.tasks = [t \in 1..Len(docs) |-> AsyTask(docs[t])],
              !.after = after]

\* one iteration of `async for property_doc in cursor`; the loop is held
\* by `while IN_COOLDOWN: await asyncio.sleep(1)` after a full batch
AsyCollect ==
    /\ asy.pc = "collect"
    /\ ~asy.in_cooldown
    /\ asy.idx <= Len(asy.cursor)
    /\ LET a0 == [asy EXCEPT !.idx = @ + 1, !.shutdown_seen = asy.shutdown]
           b1 == Append(asy.batch, asy.cursor[asy.idx])
       IN  asy' = IF asy.shutdown
                  THEN IF asy.batch # <<>>
                       THEN Launch(a0, asy.batch, "done")
                       ELSE [a0 EXCEPT !.pc = "done"]
                  ELSE IF Len(b1) >= MaxBatch
                       THEN Launch([a0 EXCEPT !.batch = <<>>], b1, "collect")
                       ELSE [a0 EXCEPT !.batch = b1]
    /\ UNCHANGED <<now, props, details, hrun, inc, eng, netlog, fed>>

\* the cursor is exhausted: `if batch and not SHUTDOWN_REQUESTED`
AsyCollectEnd ==
    /\ asy.pc = "collect"
    /\ ~asy.in_cooldown
    /\ asy.idx > Len(asy.cursor)
    /\ asy' = IF asy.batch # <<>> /\ ~asy.shutdown
              THEN Launch(asy, asy.batch, "done")
              ELSE [asy EXCEPT !.pc = "done",
                               !.shutdown_seen = asy.shutdown]
    /\ UNCHANGED <<now, props, details, hrun, inc, eng, netlog, fed>>

\* a wait that returns as soon as one task of the batch has finished
AsyBatchDone_FirstCompleted ==
    /\ asy.pc = "gather"
    /\ \E t \in 1..Len(asy.tasks) : asy.tasks[t].pc = "done"
    /\ asy' = [asy EXCEPT !.processed = @ + Len(asy.tasks),
                          !.pc        = asy.after]
    /\ UNCHANGED <<now, props, details, hrun, inc, eng, netlog, fed>>

\* gather returns: every task of the batch has returned or raised
AsyBatchDone ==
    /\ asy.pc = "gather"
    /\ \A t \in 1..Len(asy.tasks) : asy.tasks[t].pc = "done"
    /\ asy' = [asy EXCEPT !.processed = @ + Len(asy.tasks),
                          !.pc        = asy.after]
    /\ UNCHANGED <<now, props, details, hrun, inc, eng, netlog, fed>>

\* process_property up to the reply of find_one
AsyTaskFind(t) ==
    /\ asy.pc = "gather"
    /\ t \in 1..Len(asy.tasks)
    /\ asy.tasks[t].pc = "find"
    /\ LET tk == asy.tasks[t]
       IN  IF tk.url = NoUrl
           THEN /\ asy' = [asy EXCEPT !.tasks[t].pc = "done",
                                      !.tasks[t].o  = "no_url"]
                /\ netlog' = netlog
           ELSE IF HasSuccess(details, tk.pid)
           THEN /\ asy' = [asy EXCEPT !.tasks[t].pc = "done",
                                      !.tasks[t].o  = "skipped",
                                      !.skipped     = @ + 1]
                /\ netlog' = netlog
           ELSE /\ asy' = [asy EXCEPT !.tasks[t].pc = "fetch"]
                /\ netlog' = NetAfter(netlog, tk.pid)
    /\ UNCHANGED <<now, props, details, hrun, inc, eng, fed>>

\* an increment computed from a value read before another task's
\* increment: the update of a task that is still at its challenge is lost
AsyOnChallenge_LostUpdate(a) ==
    [a EXCEPT !.consecutive_challenges =
                  IF \E u \in 1..Len(a.tasks) : a.tasks[u].pc = "challenge"
                  THEN @ ELSE @ + 1,
              !.bot_challenges = @ + 1]

\* self.consecutive_challenges += 1; self.stats['bot_challenges'] += 1
AsyOnChallenge(a) ==
    [a EXCEPT !.consecutive_challenges = @ + 1,
              !.bot_challenges = @ + 1]

\* process_property from the reply of the GET to the first store update,
\* for a task at position `at` and the ways out `outs` still open to it
AsyTaskClassify(t, at, outs) ==
    /\ asy.pc = "gather"
    /\ t \in 1..Len(asy.tasks)
    /\ asy.tasks[t].pc = at
    /\ LET tk  == asy.tasks[t]
           row == DetailRow(details, tk.pid)
       IN  \E o \in asy.env \cap outs :
             CASE o = "fail" ->
                  /\ asy' = [OnTransportFailure(asy) EXCEPT
                                        !.tasks[t].pc = "done",
                                        !.tasks[t].o  = o]
                  /\ details' = PutDetail(details,
                        FailureSet(row, tk.url, now, "Failed to fetch HTML"))
               [] o = "raise_extract" ->
                  /\ asy' = [OnExtractionError(asy) EXCEPT
                                        !.tasks[t].pc = "done",
                                        !.tasks[t].o  = o]
                  /\ details' = PutDetail(details,
                        FailureSet(row, tk.url, now, "extraction error"))
               [] o = "challenge" ->
                  /\ asy' = [AsyOnChallenge(asy) EXCEPT
                                        !.tasks[t].pc = "challenge",
                                        !.tasks[t].o  = o]
                  /\ details' = PutDetail(details,
                        ChallengeSet(row, tk.url, now, "partial"))
               [] o = "normal" ->
                  /\ asy' = [asy EXCEPT !.consecutive_challenges = 0,
                                        !.challenges_at_reset = asy.bot_challenges,
                                        !.tasks[t].pc = "stored",
                                        !.tasks[t].o  = o]
                  /\ details' = PutDetail(details,
                        SuccessSet(row, tk.url, now, "full"))
    /\ UNCHANGED <<now, props, hrun, inc, eng, netlog, fed>>

\* the GET and the extraction come back: classification of the page
AsyTaskFetched(t) ==
    AsyTaskClassify(t, "fetch", {"fail", "raise_extract", "challenge", "normal"})

\* the challenge record is stored: threshold check, _handle_cooldown up to
\* its sleep
AsyTaskChallenged(t) ==
    /\ asy.pc = "gather"
    /\ t \in 1..Len(asy.tasks)
    /\ asy.tasks[t].pc = "challenge"
    /\ asy' = IF asy.consecutive_challenges >= ASYNC_BOT_DETECTION_THRESHOLD
              THEN [asy EXCEPT
                      !.in_cooldown    = TRUE,
                      !.cooldowns      = @ + 1,
                      !.cooldown_count = @ + 1,
                      !.cdlog = Append(@, [duration |-> asy.current_cooldown,
                                           at       |-> asy.bot_challenges]),
                      !.tasks[t].pc    = "cooldown"]
              ELSE [asy EXCEPT !.tasks[t].pc = "done"]
    /\ UNCHANGED <<now, props, details, hrun, inc, eng, netlog, fed>>

\* asyncio.sleep(current_cooldown) returns: the rest of _handle_cooldown
AsyTaskCooldownExpire(t) ==
    /\ asy.pc = "gather"
    /\ t \in 1..Len(asy.tasks)
    /\ asy.tasks[t].pc = "cooldown"
    /\ asy' = [asy EXCEPT !.current_cooldown = NextCooldown(@),
                          !.consecutive_challenges = 0,
                          !.challenges_at_reset = asy.bot_challenges,
                          !.in_cooldown = FALSE,
                          !.tasks[t].pc = "done"]
    /\ UNCHANGED <<now, props, details, hrun, inc, eng, netlog, fed>>

\* the success record is stored: the update of the Item is sent, or the
\* store is lost and both that update and the one of the except clause raise
AsyTaskStored(t) ==
    /\ asy.pc = "gather"
    /\ t \in 1..Len(asy.tasks)
    /\ asy.tasks[t].pc = "stored"
    /\ \/ /\ asy' = [asy EXCEPT !.tasks[t].pc = "mark"]
          /\ props' = MarkDetailScraped(props, asy.tasks[t].pid, now)
       \/ /\ "storage_lost" \in asy.env
          /\ asy' = [asy EXCEPT !.failed = @ + 1,
                                !.tasks[t].pc = "done",
                                !.tasks[t].o  = "storage_lost"]
          /\ props' = props
    /\ UNCHANGED <<now, details, hrun, inc, eng, netlog, fed>>

\* the Item is marked: count the success, print the summary line; a price
\* that is not a number raises and the except clause stores a failure
AsyTaskMarked(t) ==
    /\ asy.pc = "gather"
    /\ t \in 1..Len(asy.tasks)
    /\ asy.tasks[t].pc = "mark"
    /\ LET tk == asy.tasks[t]
       IN  \/ /\ asy' = [asy EXCEPT !.success = @ + 1,
                                    !.tasks[t].pc = "done"]
              /\ details' = details
           \/ /\ "raise_late" \in asy.env
              /\ asy' = [asy EXCEPT !.success = @ + 1,
                                    !.failed  = @ + 1,
                                    !.tasks[t].pc = "done",
                                    !.tasks[t].o  = "raise_late"]
              /\ details' = PutDetail(details,
                    FailureSet(DetailRow(details, tk.pid), tk.url, now,
                               "format error"))
    /\ UNCHANGED <<now, props, hrun, inc, eng, netlog, fed>>

\* signal_handler
AsyShutdown ==
    /\ asy.pc \in {"collect", "gather"}
    /\ ~asy.shutdown
    /\ asy' = [asy EXCEPT !.shutdown = TRUE]
    /\ UNCHANGED <<now, props, details, hrun, inc, eng, netlog, fed>>

\* the script is started again (a new process, new counters)
AsyRestart ==
    /\ asy.pc = "done"
    /\ asy.runs < MaxRuns
    /\ asy' = AsyProcessState(asy.env, asy.limit, asy.skip, asy.runs + 1)
    /\ UNCHANGED <<now, props, details, hrun, inc, eng, netlog, fed>>

\* main() of bayut_detail_scraper_async.py after a sequential process ended
AsyAfterEng ==
    /\ eng.pc \in {"done", "crashed"}
    /\ eng.runs < MaxRuns
    /\ asy.pc = "off"
    /\ asy' = AsyProcessState(eng.env, eng.limit, eng.skip, eng.runs + 1)
    /\ eng' = IdleEng
    /\ UNCHANGED <<now, props, details, hrun, inc, netlog, fed>>

\* main() of bayut_detail_scraper.py after a concurrent process ended
EngAfterAsy ==
    /\ asy.pc = "done"
    /\ asy.runs < MaxRuns
    /\ eng.pc = "off"
    /\ eng' = EngProcessState(asy.env, asy.limit, asy.skip, asy.runs + 1)
    /\ asy' = IdleAsy
    /\ UNCHANGED <<now, props, details, hrun, inc, netlog, fed>>

(***************************************************************************)
(* Incremental run over a given page stream.                               *)
(***************************************************************************)
MaxIncPages   == 3   \* pages of the stream
MaxIncPageLen == 3   \* items of the first page; page p carries at most
                     \* MaxIncPageLen - p + 1 items

UrlC == <<"/property/", "details-", "3", ".html">>

IncItems ==
    { [url |-> UrlA, price |-> 10],
      [url |-> UrlB, price |-> 10],
      [url |-> UrlC, price |-> 10] }

\* a listing page carries a listing at most once
Injective(e) == \A i, j \in DOMAIN e : e[i] = e[j] => i = j

IncPagesAt(p) ==
    { [status |-> "error", elts |-> <<>>] } \cup
    { [status |-> "ok", elts |-> e] :
        e \in { f \in UNION { [1..n -> IncItems] :
                                n \in 0..(MaxIncPageLen - p + 1) } :
                  Injective(f) } }

RECURSIVE StreamsOfLen(_)
StreamsOfLen(n) ==
    IF n = 0 THEN { <<>> }
    ELSE { Append(st, pg) : st \in StreamsOfLen(n - 1), pg \in IncPagesAt(n) }

IncStreams == StreamsOfLen(MaxIncPages)

\* the store left by an earlier harvest
EarlierStores ==
    { <<>>,
      << InsertedItem(doc_from_item([url |-> UrlA, price |-> 10], 1, 1, 0,
                                    "dubai", "/")) >> }

InitInc ==
    /\ now = 0
    /\ props \in EarlierStores
    /\ details = <<>>
    /\ hrun = [h \in Runs |-> [HarvestRun("location", "dubai", "/", 0, 0, {})
                                 EXCEPT !.pc = "done"]]
    /\ \E st \in IncStreams : inc = IncRun(st, MaxIncPages)
    /\ eng = IdleEng
    /\ asy = IdleAsy
    /\ netlog = <<>>
    /\ fed = <<>>

NextInc ==
    \/ IncPageNothing
    \/ IncPageBegin
    \/ IncItem
    \/ IncWrite
    \/ IncPageDone
    \/ IncFinish
    \/ IncShutdown

SpecInc == InitInc /\ [][NextInc]_vars

(***************************************************************************)
(* Harvest: two runs of bayut_ldjson_to_mongo.py (h1 in location mode,     *)
(* h2 in CSV mode) and one incremental run write the same collection.      *)
(***************************************************************************)
HarvestIncStreams ==
    { << [status |-> "ok", elts |-> <<it>>] >> : it \in RawItems }

InitHarvest ==
    /\ now = 0
    /\ props = <<>>
    /\ details = <<>>
    /\ hrun = [h \in Runs |->
                IF h = "h1"
                THEN HarvestRun("location", "dubai", "/", 1, MaxItemsPerPage, RawItems)
                ELSE HarvestRun("csv", NoneVal, "Dubai/Dubai Marina", 1, 1, RawItems)]
    /\ \E st \in HarvestIncStreams : inc = IncRun(st, 1)
    /\ eng = IdleEng
    /\ asy = IdleAsy
    /\ netlog = <<>>
    /\ fed = <<>>

NextHarvest ==
    \/ \E h \in Runs : HPageEmpty(h)
    \/ \E h \in Runs : HPageItems(h)
    \/ \E h \in Runs : HWrite(h)
    \/ \E h \in Runs : HStop(h)
    \/ IncPageBegin
    \/ IncItem
    \/ IncWrite
    \/ IncPageDone
    \/ IncFinish
    \/ Tick

SpecHarvest == InitHarvest /\ [][NextHarvest]_vars

(***************************************************************************)
(* Appearance cap: a location-mode run walks MaxFeed pages of a feed that  *)
(* shows the same listing on every page, while an incremental run meets    *)
(* the listing once.                                                       *)
(***************************************************************************)
CapItem == [url |-> UrlA, price |-> 10]

InitCap ==
    /\ now = 0
    /\ props = <<>>
    /\ details = <<>>
    /\ hrun = [h \in Runs |->
                IF h = "h1"
                THEN HarvestRun("location", "dubai", "/", MaxFeed, 1, {CapItem})
                ELSE [HarvestRun("location", "dubai", "/", 0, 0, {})
                        EXCEPT !.pc = "done"]]
    /\ inc = IncRun(<< [status |-> "ok", elts |-> <<CapItem>>] >>, 1)
    /\ eng = IdleEng
    /\ asy = IdleAsy
    /\ netlog = <<>>
    /\ fed = <<>>

NextCap ==
    \/ \E h \in Runs : HPageItems(h)
    \/ \E h \in Runs : HWrite(h)
    \/ \E h \in Runs : HStop(h)
    \/ IncPageBegin
    \/ IncItem
    \/ IncWrite
    \/ IncPageDone
    \/ IncFinish

SpecCap == InitCap /\ [][NextCap]_vars

(***************************************************************************)
(* Store: the three harvester runs of Harvest write the collection while   *)
(* one run of the sequential engine, started at any moment, works through  *)
(* the Items that were pending when it opened its cursor.                  *)
(***************************************************************************)
InitStore ==
    /\ now = 0
    /\ props = <<>>
    /\ details = <<>>
    /\ hrun = [h \in Runs |->
                IF h = "h1"
                THEN HarvestRun("location", "dubai", "/", 1, MaxItemsPerPage, RawItems)
                ELSE HarvestRun("csv", NoneVal, "Dubai/Dubai Marina", 1, 1, RawItems)]
    /\ \E st \in HarvestIncStreams : inc = IncRun(st, 1)
    /\ eng = EngProcessState({"normal", "fail"}, 0, 0, 1)
    /\ asy = IdleAsy
    /\ netlog = <<>>
    /\ fed = <<>>

NextStore ==
    \/ \E h \in Runs : HPageEmpty(h)
    \/ \E h \in Runs : HPageItems(h)
    \/ \E h \in Runs : HWrite(h)
    \/ \E h \in Runs : HStop(h)
    \/ IncPageBegin
    \/ IncItem
    \/ IncWrite
    \/ IncPageDone
    \/ IncFinish
    \/ EngStart
    \/ EngProcess
    \/ EngFinish

SpecStore == InitStore /\ [][NextStore]_vars

(***************************************************************************)
(* Cooldown scenario: one run of the sequential engine over a store of     *)
(* pending Items, against a site that answers every detail GET with a      *)
(* challenge, a normal page or a transport failure.                        *)
(***************************************************************************)
MaxCoolItems == 9    \* pending Items in the store

UrlOf(i) == <<"/property/", "details-", ToString(i), ".html">>

\* the store after an earlier harvest found listings 1..n
StoreOf(n) ==
    [ i \in 1..n |->
        InsertedItem(doc_from_item([url |-> UrlOf(i), price |-> 10],
                                   i, 1, 0, "dubai", "/")) ]

HarvestersDone ==
    [h \in Runs |-> [HarvestRun("location", "dubai", "/", 0, 0, {})
                       EXCEPT !.pc = "done"]]

InitCool ==
    /\ now = 0
    /\ props = StoreOf(MaxCoolItems)
    /\ details = <<>>
    /\ hrun = HarvestersDone
    /\ inc = IdleInc
    /\ eng = EngProcessState({"challenge", "normal", "fail"}, 0, 0, 1)
    /\ asy = IdleAsy
    /\ netlog = <<>>
    /\ fed = <<>>

NextCool ==
    \/ EngStart
    \/ EngProcess
    \/ EngCooldownExpire
    \/ EngCooldownInterrupted
    \/ EngShutdown
    \/ EngFinish

SpecCool == InitCool /\ [][NextCool]_vars

(***************************************************************************)
(* Concurrent cooldown scenario: one run of the concurrent engine over a   *)
(* store of pending Items, against a site that answers every detail GET    *)
(* with a challenge or a normal page, or not at all.                       *)
(***************************************************************************)
MaxAsyItems == 6     \* pending Items in the store

InitAsyCool ==
    /\ now = 0
    /\ props = StoreOf(MaxAsyItems)
    /\ details = <<>>
    /\ hrun = HarvestersDone
    /\ inc = IdleInc
    /\ eng = IdleEng
    /\ asy = AsyProcessState({"challenge", "normal", "fail"}, 0, 0, 1)
    /\ netlog = <<>>
    /\ fed = <<>>

NextAsyCool ==
    \/ AsyStart
    \/ AsyCollect
    \/ AsyCollectEnd
    \/ AsyBatchDone
    \/ \E t \in 1..MaxBatch : AsyTaskFind(t)
    \/ \E t \in 1..MaxBatch : AsyTaskFetched(t)
    \/ \E t \in 1..MaxBatch : AsyTaskChallenged(t)
    \/ \E t \in 1..MaxBatch : AsyTaskCooldownExpire(t)
    \/ \E t \in 1..MaxBatch : AsyTaskStored(t)
    \/ \E t \in 1..MaxBatch : AsyTaskMarked(t)
    \/ AsyShutdown

SpecAsyCool == InitAsyCool /\ [][NextAsyCool]_vars

(***************************************************************************)
(* Detail: processes of the two engines, one after the other, over a store *)
(* of pending Items, against a site that never challenges but whose pages  *)
(* can fail to arrive, fail to parse or carry a price that is not a        *)
(* number, and a store whose connection can be lost.                       *)
(***************************************************************************)
MaxDetailItems == 3  \* pending Items in the store

DetailEnv == {"normal", "fail", "raise_extract", "raise_late", "storage_lost"}

InitDetail ==
    /\ now = 0
    /\ props = StoreOf(MaxDetailItems)
    /\ details = <<>>
    /\ hrun = HarvestersDone
    /\ inc = IdleInc
    /\ \/ eng = EngProcessState(DetailEnv, 0, 0, 1) /\ asy = IdleAsy
       \/ asy = AsyProcessState(DetailEnv, 0, 0, 1) /\ eng = IdleEng
    /\ netlog = <<>>
    /\ fed = <<>>

NextDetail ==
    \/ EngStart
    \/ EngProcess
    \/ EngFinish
    \/ EngRestart
    \/ AsyAfterEng
    \/ AsyStart
    \/ AsyCollect
    \/ AsyCollectEnd
    \/ AsyBatchDone
    \/ \E t \in 1..MaxBatch : AsyTaskFind(t)
    \/ \E t \in 1..MaxBatch : AsyTaskFetched(t)
    \/ \E t \in 1..MaxBatch : AsyTaskStored(t)
    \/ \E t \in 1..MaxBatch : AsyTaskMarked(t)
    \/ AsyRestart
    \/ EngAfterAsy

SpecDetail == InitDetail /\ [][NextDetail]_vars

(***************************************************************************)
(* C1.  Identity of Items.                                                 *)
(***************************************************************************)
\* C1: whatever the interleaving of the Upserts of the location-mode run,
\* the CSV-mode run and the incremental run, the Item store holds at most
\* one Item per id.
C1_AtMostOneItemPerId ==
    \A i, j \in 1..Len(props) :
        props[i].property_id = props[j].property_id => i = j

\* an id that all three runs have upserted
C1_Witness ==
    \E i \in 1..Len(props) :
        /\ Range(props[i].locations_seen) = {"dubai", "Dubai/Dubai Marina", "UAE"}
        /\ Len(props[i].appearances) = 3

(***************************************************************************)
(* C2.  Cap of the appearance history.                                     *)
(***************************************************************************)
\* C2: for every Item, after n Upserts of its id the appearances are the
\* most recent min(n, 100) observations in arrival order, so their number
\* is min(n, 100) and never exceeds 100.
C2_AppearancesAreLatest100 ==
    \A i \in 1..Len(props) :
        LET pid  == props[i].property_id
            n    == Len(fed[pid])
            kept == IF n < 100 THEN n ELSE 100
        IN  /\ pid \in DOMAIN fed
            /\ Len(props[i].appearances) = kept
            /\ Len(props[i].appearances) <= 100
            /\ \A k \in 1..kept :
                  props[i].appearances[k] = fed[pid][n - kept + k]

\* an id upserted more than 100 times: the first observations are gone
C2_Witness ==
    \E i \in 1..Len(props) :
        /\ Len(fed[props[i].property_id]) = 102
        /\ Len(props[i].appearances) = 100
        /\ props[i].appearances[1] = fed[props[i].property_id][3]
        /\ props[i].appearances[1] # fed[props[i].property_id][1]

(***************************************************************************)
(* C3.  Five challenges in a row, threshold 3 (sequential engine).         *)
(***************************************************************************)
\* classifications j..j+4 are Challenge and the counter was 0 before j
C3_FiveChallenges(j) ==
    /\ j + 4 <= Len(eng.cls)
    /\ \A i \in j..(j + 4) : eng.cls[i] = "Challenge"
    /\ (j = 1 \/ eng.cls[j - 1] = "Normal")

\* cooldowns entered at classifications j..j+4
C3_CooldownsIn(j) ==
    { k \in 1..Len(eng.cdlog) : eng.cdlog[k].at \in j..(j + 4) }

\* C3: of five consecutive Challenge classifications exactly one starts a
\* cooldown, the third; and once a cooldown has expired, a Normal
\* classification leaves consecutive_challenges at 0.
C3_OneCooldownAtThird ==
    /\ \A j \in 1..Len(eng.cls) :
          C3_FiveChallenges(j) =>
              /\ Cardinality(C3_CooldownsIn(j)) = 1
              /\ \A k \in C3_CooldownsIn(j) : eng.cdlog[k].at = j + 2
    /\ ( /\ eng.pc \in {"loop", "done"}
         /\ eng.cdlog # <<>>
         /\ Len(eng.cls) > eng.cdlog[Len(eng.cdlog)].at
         /\ eng.cls[Len(eng.cls)] = "Normal" )
       => eng.consecutive_challenges = 0

\* five challenges, one cooldown at the third, then a Normal page
C3_Witness ==
    /\ C3_FiveChallenges(1)
    /\ Len(eng.cls) = 6
    /\ eng.cls[6] = "Normal"
    /\ Len(eng.cdlog) = 1
    /\ eng.cdlog[1].at = 3
    /\ eng.consecutive_challenges = 0

(***************************************************************************)
(* C4.  Growth of the cooldown duration.                                   *)
(***************************************************************************)
\* the cooldowns an engine process has started, in the order they started
C4_Cooldowns ==
    { IF eng.pc = "off" THEN <<>> ELSE eng.cdlog,
      IF asy.pc = "off" THEN <<>> ELSE asy.cdlog }

\* C4: in either engine every cooldown is longer than the one before it,
\* and the second cooldown lasts 1350 s when the first lasted 900 s.
C4_CooldownsGrow ==
    \A log \in C4_Cooldowns :
        /\ \A k \in 1..(Len(log) - 1) : log[k + 1].duration > log[k].duration
        /\ (Len(log) >= 2 /\ log[1].duration = 900) => log[2].duration = 1350

(***************************************************************************)
(* C5.  The stream of the claim: a page with 3 items that are all new, a   *)
(* page with 2 items and a page with 1 item, both of items already known   *)
(* (every item of the feed is on the first page).                          *)
(***************************************************************************)
C5_Stream ==
    /\ inc.pc # "off"
    /\ Len(inc.stream) >= 3
    /\ \A p \in 1..3 : inc.stream[p].status = "ok"
    /\ Len(inc.stream[1].elts) = 3
    /\ Len(inc.stream[2].elts) = 2
    /\ Len(inc.stream[3].elts) = 1
    /\ Len(inc.hist) >= 1
    /\ inc.hist[1].new = 3

C5_RunEnded == inc.pc = "done" /\ ~inc.shutdown

\* C5 as stated: on that stream the incremental run stops after the third
\* page, having inserted exactly 3 Items.
C5_Original ==
    (C5_Stream /\ C5_RunEnded) =>
        /\ inc.pages_scraped = 3
        /\ inc.new_properties = 3
        /\ Len(props) = 3

\* C5 amended: on that stream the incremental run stops after the second
\* page (the two known items of page 2 reach the threshold), the third page
\* is never fetched, and exactly 3 Items have been inserted.
C5_StopsAfterSecondPage ==
    (C5_Stream /\ C5_RunEnded) =>
        /\ inc.pages_scraped = 2
        /\ inc.page_num = 2
        /\ inc.reason = "consecutive_existing"
        /\ inc.new_properties = 3
        /\ Len(props) = 3

C5_Witness ==
    /\ C5_Stream
    /\ C5_RunEnded
    /\ inc.pages_scraped = 2
    /\ inc.hist[2] = [new |-> 0, existing |-> 2]

(***************************************************************************)
(* C6, C7.  A successful detail record is final.                           *)
(***************************************************************************)
\* the procedure that stored the successful record of pid is still running
C6_Producing(pid) ==
    /\ asy.pc = "gather"
    /\ \E t \in 1..Len(asy.tasks) :
          /\ asy.tasks[t].pid = pid
          /\ asy.tasks[t].pc \in {"stored", "mark"}

\* C6: once a detail record with extraction_success = TRUE exists for an
\* id, no step of a later per-item procedure or later run of either
\* engine changes that record or the Item of that id.
C6_SuccessIsFinal ==
    [][ \A pid \in DOMAIN details :
          (details[pid].extraction_success /\ ~C6_Producing(pid)) =>
              /\ pid \in DOMAIN details'
              /\ details'[pid] = details[pid]
              /\ \A i \in 1..Len(props) :
                    props[i].property_id = pid => props'[i] = props[i] ]_vars

\* a task of a later concurrent run met an id that is still pending although
\* its record is successful, and skipped it
C6_Witness ==
    /\ asy.pc = "gather"
    /\ asy.runs = 2
    /\ \E t \in 1..Len(asy.tasks) :
          /\ asy.tasks[t].o = "skipped"
          /\ asy.tasks[t].pid \in DOMAIN details
          /\ details[asy.tasks[t].pid].extraction_success
          /\ \E i \in 1..Len(props) :
                /\ props[i].property_id = asy.tasks[t].pid
                /\ ~props[i].detail_scraped

\* C7: no detail GET is issued for an id whose detail record is
\* successful: the per-item procedure of either engine skips it first.
C7_NoRequestForSuccessful ==
    [][ \A pid \in DOMAIN details :
          details[pid].extraction_success =>
              /\ pid \in DOMAIN netlog
              /\ netlog'[pid] = netlog[pid] ]_vars

\* a later sequential run skipped a pending Item with a successful record,
\* fetched once, by the run before
C7_Witness ==
    /\ eng.pc \in {"loop", "done"}
    /\ eng.runs = 2
    /\ eng.skipped >= 1
    /\ \E i \in 1..Len(props) :
          /\ ~props[i].detail_scraped
          /\ props[i].property_id \in DOMAIN details
          /\ details[props[i].property_id].extraction_success
          /\ netlog[props[i].property_id] = 1
          /\ i < eng.idx

(***************************************************************************)
(* C8.  A batch of the concurrent engine whose pages are all normal.       *)
(***************************************************************************)
\* gather has returned and every page of the batch was fetched, extracted
\* and classified normal, the store being reachable throughout
C8_BatchAllNormal ==
    /\ asy.pc \in {"collect", "done"}
    /\ asy.tasks # <<>>
    /\ \A t \in 1..Len(asy.tasks) : asy.tasks[t].o \in {"normal", "raise_late"}

\* C8: after such a batch of N Items there are exactly N successful detail
\* records and exactly N Items marked detail_scraped, for the ids of the
\* batch, whatever the interleaving of its tasks.
C8_AllRecordedAndMarked ==
    C8_BatchAllNormal =>
        LET ids == { asy.tasks[t].pid : t \in 1..Len(asy.tasks) }
        IN  /\ Cardinality({ pid \in ids : /\ pid \in DOMAIN details
                                            /\ details[pid].extraction_success })
                  = Len(asy.tasks)
            /\ Cardinality({ i \in 1..Len(props) :
                                /\ props[i].property_id \in ids
                                /\ props[i].detail_scraped })
                  = Len(asy.tasks)

(***************************************************************************)
(* C9.  Order of the two timestamps of an Item.                            *)
(***************************************************************************)
\* C9: first_seen <= last_seen for every Item in every reachable state,
\* also when two runs that stamp their observations with their own fetch
\* time upsert the same id in either order.
C9_FirstSeenNotAfterLastSeen ==
    \A i \in 1..Len(props) : props[i].first_seen <= props[i].last_seen

(***************************************************************************)
(* C10.  Fields fixed at creation.                                         *)
(***************************************************************************)
\* C10: no step changes first_seen, first_page, first_location or
\* created_at of an Item that exists: neither a later Upsert of its id by
\* any of the harvester runs nor an operation of the detail engine.
C10_CreationFieldsFixed ==
    [][ \A i \in 1..Len(props) :
          /\ i <= Len(props')
          /\ props'[i].property_id    = props[i].property_id
          /\ props'[i].first_seen     = props[i].first_seen
          /\ props'[i].first_page     = props[i].first_page
          /\ props'[i].first_location = props[i].first_location
          /\ props'[i].created_at     = props[i].created_at ]_vars

\* an Item upserted by all three runs and marked by the detail engine
C10_Witness ==
    \E i \in 1..Len(props) :
        /\ Range(props[i].locations_seen) = {"dubai", "Dubai/Dubai Marina", "UAE"}
        /\ props[i].last_location # props[i].first_location
        /\ props[i].detail_scraped
        /\ HasSuccess(details, props[i].property_id)

(***************************************************************************)
(* Replay of upserts.  The same observation (or any other observation of   *)
(* the feed) is written again and again by bulk_upsert_items, as when a    *)
(* harvest is run again over the same pages.                               *)
(***************************************************************************)
MaxReplay == 3       \* upserts applied to one id

ReplayLocations == { [location |-> "dubai", city_sub |-> "/"],
                     [location |-> NoneVal, city_sub |-> "Dubai/Dubai Marina"] }

ReplayDocs(t) ==
    { doc_from_item(item, 1, 1, t, l.location, l.city_sub) :
        item \in RawItems, l \in ReplayLocations }

ReplayUpsert ==
    /\ \E d \in ReplayDocs(now) :
          /\ d.upsert_key \in DOMAIN fed => Len(fed[d.upsert_key]) < MaxReplay
          /\ props' = bulk_upsert_items(props, d)
          /\ fed' = FedAfter(d)
    /\ UNCHANGED <<now, details, hrun, inc, eng, asy, netlog>>

InitReplay ==
    /\ now = 0
    /\ props = <<>>
    /\ details = <<>>
    /\ hrun = [h \in Runs |-> [HarvestRun("location", "dubai", "/", 0, 0, {})
                                  EXCEPT !.pc = "done"]]
    /\ inc = IdleInc
    /\ eng = IdleEng
    /\ asy = IdleAsy
    /\ netlog = <<>>
    /\ fed = <<>>

NextReplay ==
    \/ ReplayUpsert
    \/ Tick

SpecReplay == InitReplay /\ [][NextReplay]_vars

(***************************************************************************)
(* C11.  Re-observation of a known Item.                                   *)
(***************************************************************************)
\* appearances that the incremental run (location "UAE") has left in coll
RECURSIVE C11_UaeAppearances(_)
C11_UaeAppearances(coll) ==
    IF coll = <<>> THEN 0
    ELSE Cardinality({ k \in 1..Len(Head(coll).appearances) :
                          Head(coll).appearances[k].location = "UAE" })
         + C11_UaeAppearances(Tail(coll))

\* C11: every observation of a listing by the incremental run, of a known
\* Item as much as of a new one, has appended an appearance by the time
\* the run ends, and a re-observed Item carries the run's location.
C11_EveryObservationRecorded ==
    inc.pc = "done" =>
        /\ C11_UaeAppearances(props)
              = inc.new_properties + inc.existing_properties
        /\ inc.existing_properties > 0 =>
              \E i \in 1..Len(props) :
                  /\ "UAE" \in Range(props[i].locations_seen)
                  /\ props[i].first_location # "UAE"

(***************************************************************************)
(* C12.  Upsert under replay.                                              *)
(***************************************************************************)
\* C12: after the upserts of one id have been applied k times (the same
\* observation replayed included), there is exactly one Item of that id,
\* its appearances have grown by at most k entries, locations_seen holds
\* no location twice and first_seen is still that of the first upsert.
C12_ReplayIdempotent ==
    \A p \in DOMAIN fed :
        /\ Cardinality({ i \in 1..Len(props) : props[i].property_id = p }) = 1
        /\ \A i \in 1..Len(props) :
              props[i].property_id = p =>
                /\ Len(props[i].appearances) <= Len(fed[p])
                /\ Len(props[i].locations_seen)
                      = Cardinality({ props[i].locations_seen[k] :
                                        k \in 1..Len(props[i].locations_seen) })
                /\ { props[i].locations_seen[k] :
                        k \in 1..Len(props[i].locations_seen) }
                      = { fed[p][k].location : k \in 1..Len(fed[p]) }
                /\ props[i].first_seen = fed[p][1].scraped_at

\* the same observation has been upserted three times, the last two
\* after the clock moved on
C12_Witness ==
    /\ now > 0
    /\ \E p \in DOMAIN fed :
          /\ Len(fed[p]) = 3
          /\ fed[p][1].scraped_at = 0
          /\ \A k \in 1..3 :
                /\ fed[p][k].location = fed[p][1].location
                /\ fed[p][k].price = fed[p][1].price
          /\ fed[p][3].scraped_at > 0
          /\ \E i \in 1..Len(props) :
                /\ props[i].property_id = p
                /\ Len(props[i].appearances) = 3

(***************************************************************************)
(* Identity resolution of arbitrary URLs.  One listing, whose URL is any   *)
(* token sequence up to MaxUrlLen, is served to a location harvest and to  *)
(* an incremental run; each resolves its id with its own copy of the       *)
(* resolver and writes the Item.                                           *)
(***************************************************************************)
MaxUrlLen == 4       \* tokens of a url

ResolveDigits == {"1", "7"}

ResolveTokens == {"details-", ".html", "hash_", "/p/"} \cup ResolveDigits

ResolveUrls == UNION { [1..n -> ResolveTokens] : n \in 0..MaxUrlLen }

ResolveItems == { [url |-> u, price |-> 10] : u \in ResolveUrls }

\* every id that group(1) of the pattern can yield on these urls
NaturalIds ==
    { Flatten(ds) : ds \in UNION { [1..n -> ResolveDigits] : n \in 1..MaxUrlLen } }

InitResolve ==
    /\ now = 0
    /\ props = <<>>
    /\ details = <<>>
    /\ \E item \in ResolveItems :
          /\ hrun = [h \in Runs |->
                      IF h = "h1"
                      THEN HarvestRun("location", "dubai", "/", 1, 1, {item})
                      ELSE [HarvestRun("location", "dubai", "/", 0, 0, {})
                              EXCEPT !.pc = "done"]]
          /\ inc = IncRun(<< [status |-> "ok", elts |-> <<item>>] >>, 1)
    /\ eng = IdleEng
    /\ asy = IdleAsy
    /\ netlog = <<>>
    /\ fed = <<>>

NextResolve ==
    \/ \E h \in Runs : HPageItems(h)
    \/ \E h \in Runs : HWrite(h)
    \/ \E h \in Runs : HStop(h)
    \/ IncPageBegin
    \/ IncItem
    \/ IncWrite
    \/ IncPageDone
    \/ IncFinish

SpecResolve == InitResolve /\ [][NextResolve]_vars

(***************************************************************************)
(* C13.  Identity Resolver.                                                *)
(***************************************************************************)
\* C13: the two resolvers give one listing one id, whichever run resolves
\* it first; the id is the digits of the first details-N.html match when
\* the url has one, and otherwise a synthetic id that is not a digit
\* string, so a natural id never equals a synthetic id.
C13_ResolverDeterministicAndDisjoint ==
    /\ Len(props) <= 1
    /\ \A i \in 1..Len(props) :
          LET nat == property_id_from_url(props[i].detailed_url)
          IN  /\ nat # NoneVal =>
                    /\ props[i].property_id = nat
                    /\ nat \in NaturalIds
              /\ nat = NoneVal => props[i].property_id \notin NaturalIds
              /\ \A p \in DOMAIN fed : p = props[i].property_id

\* both runs have resolved a url that carries digits but no details-N.html
\* match, and the Item has a synthetic id
C13_Witness ==
    /\ Len(props) = 1
    /\ hrun["h1"].pc = "done"
    /\ inc.pc = "done"
    /\ inc.new_properties + inc.existing_properties = 1
    /\ props[1].detailed_url = <<"/p/", "7", ".html">>
    /\ property_id_from_url(props[1].detailed_url) = NoneVal
    /\ props[1].property_id \notin NaturalIds

(***************************************************************************)
(* C14.  Resume by store contents.                                         *)
(***************************************************************************)
\* Items that have a detail URL and no successful detail record
C14_Unscraped ==
    { props[i].property_id : i \in { j \in 1..Len(props) :
        /\ props[j].detailed_url # NoUrl
        /\ ~(/\ props[j].property_id \in DOMAIN details
             /\ details[props[j].property_id].extraction_success) } }

\* C14: when a restarted detail run (no limit, no skip) has just read its
\* pending query, no Item that has a detail URL and has not been
\* successfully detail-scraped is missing from the query.
C14_NoUnscrapedDropped ==
    /\ (eng.pc = "loop" /\ eng.runs > 1 /\ eng.idx = 1) =>
          C14_Unscraped
            \subseteq { eng.cursor[k].property_id : k \in 1..Len(eng.cursor) }
    /\ (asy.pc = "collect" /\ asy.runs > 1 /\ asy.idx = 1) =>
          C14_Unscraped
            \subseteq { asy.cursor[k].property_id : k \in 1..Len(asy.cursor) }

(***************************************************************************)
(* C15.  Status of a harvester run.                                        *)
(***************************************************************************)
\* what made `while page_num <= max_pages and not should_stop and not
\* SHUTDOWN_REQUESTED` end, its conjuncts read from left to right
C15_Cause ==
    IF inc.should_stop THEN "consecutive_existing"
    ELSE IF inc.page_num > inc.max_pages THEN "completed"
    ELSE "shutdown"

\* C15: a finished incremental run reports exactly one of completed,
\* consecutive_existing (policy) and shutdown, and the one it reports is
\* the cause that ended its page loop.
C15_StatusMatchesCause ==
    inc.pc = "done" =>
        /\ inc.reason \in {"completed", "consecutive_existing", "shutdown"}
        /\ inc.reason = C15_Cause

(***************************************************************************)
(* C16.  No detail fetch during COOLDOWN.                                  *)
(***************************************************************************)
\* C16: no step taken while a cooldown is in progress, in the sequential
\* or in the concurrent engine, issues a detail GET.
C16_NoFetchDuringCooldown ==
    [][ (eng.pc = "cooldown" \/ (asy.pc # "off" /\ asy.in_cooldown))
          => netlog' = netlog ]_vars

(***************************************************************************)
(* C17.  consecutiveChallenges.                                            *)
(***************************************************************************)
\* C17: in both engines consecutive_challenges is the number of Challenges
\* classified since the most recent Normal or cooldown expiry; no
\* increment of a concurrent task is lost.
C17_CounterIsStreak ==
    /\ eng.pc # "off" =>
          eng.consecutive_challenges
            = eng.bot_challenges - eng.challenges_at_reset
    /\ asy.pc # "off" =>
          asy.consecutive_challenges
            = asy.bot_challenges - asy.challenges_at_reset

\* two tasks of one batch have both counted their challenge and neither
\* has gone on yet, after an earlier Normal in the run
C17_Witness ==
    /\ asy.pc = "gather"
    /\ asy.challenges_at_reset > 0
    /\ asy.consecutive_challenges >= 2
    /\ Cardinality({ t \in 1..Len(asy.tasks) :
                        asy.tasks[t].pc = "challenge" }) >= 2

(***************************************************************************)
(* C18.  One cooldown wait at a time in concurrent mode.                   *)
(***************************************************************************)
\* tasks of the current batch that are inside the sleep of _handle_cooldown
C18_Waiting ==
    IF asy.pc = "gather"
    THEN { t \in 1..Len(asy.tasks) : asy.tasks[t].pc = "cooldown" }
    ELSE {}

\* C18: in the concurrent engine at most one cooldown wait is in progress
\* at any time.
C18_AtMostOneCooldownWait ==
    asy.pc # "off" => Cardinality(C18_Waiting) <= 1

(***************************************************************************)
(* C19.  Shutdown during a cooldown wait.                                  *)
(***************************************************************************)
\* C19: a cooldown wait that is in progress when the shutdown flag is set
\* ends by interruption, not by running to its normal expiry: the step
\* that ends it leaves the cooldown duration as it was.
C19_ShutdownCutsCooldown ==
    [][ /\ (eng.pc = "cooldown" /\ eng.shutdown /\ eng'.pc # "cooldown")
            => eng'.current_cooldown = eng.current_cooldown
        /\ (asy.pc = "gather" /\ asy.shutdown /\ asy'.pc = "gather")
            => \A t \in 1..Len(asy.tasks) :
                  (asy.tasks[t].pc = "cooldown" /\ asy'.tasks[t].pc # "cooldown")
                     => asy'.current_cooldown = asy.current_cooldown ]_vars

(***************************************************************************)
(* C20.  No new detail fetch after shutdown was observed.                  *)
(***************************************************************************)
\* C20: once the engine has seen the shutdown flag set (the sequential
\* loop at its next item, the concurrent run() in its cursor loop), no
\* later step issues a detail GET.
C20_NoFetchAfterShutdownSeen ==
    [][ ((eng.pc # "off" /\ eng.shutdown)
            \/ (asy.pc # "off" /\ asy.shutdown_seen))
          => netlog' = netlog ]_vars

(***************************************************************************)
(* C21.  Normal expiry of a cooldown.                                      *)
(***************************************************************************)
\* the sequential engine leaves its cooldown wait without a shutdown
C21_EngExpires == eng.pc = "cooldown" /\ ~eng.shutdown /\ eng'.pc # "cooldown"

\* a task of the concurrent engine leaves its cooldown wait
C21_AsyExpires ==
    /\ asy.pc = "gather" /\ asy'.pc = "gather"
    /\ \E t \in 1..Len(asy.tasks) :
          asy.tasks[t].pc = "cooldown" /\ asy'.tasks[t].pc # "cooldown"

\* C21: the step in which a cooldown expires normally leaves the engine in
\* NORMAL with consecutive_challenges 0, with the cooldown counted once
\* (cooldown_count is the number of cooldowns started) and with a duration
\* for the next cycle that is 1.5 times the duration of the cooldown that
\* expired.
C21_ExpiryStep ==
    [][ /\ C21_EngExpires =>
              /\ eng'.pc = "loop"
              /\ eng'.consecutive_challenges = 0
              /\ eng'.cooldown_count = Len(eng.cdlog)
              /\ eng'.current_cooldown
                    = (eng.cdlog[Len(eng.cdlog)].duration * 3) \div 2
        /\ C21_AsyExpires =>
              /\ ~asy'.in_cooldown
              /\ asy'.consecutive_challenges = 0
              /\ asy'.cooldown_count = Len(asy.cdlog)
              /\ asy'.current_cooldown
                    = (asy.cdlog[Len(asy.cdlog)].duration * 3) \div 2 ]_vars

(***************************************************************************)
(* C22.  Transport failure of a detail fetch.                              *)
(***************************************************************************)
\* the cooldown accounting of an engine record
C22_Accounting(e) ==
    <<e.consecutive_challenges, e.current_cooldown, e.cooldown_count,
      e.bot_challenges>>

\* C22: the step in which a detail fetch comes back without HTML stores a
\* record with extraction_success = FALSE and an error, counts one more
\* failed item, and leaves consecutive_challenges, current_cooldown and
\* cooldown_count as they were; no cooldown starts.
C22_TransportFailureFrame ==
    [][ /\ \A t \in 1..MaxBatch :
              ( /\ asy.pc = "gather" /\ asy'.pc = "gather"
                /\ t <= Len(asy.tasks)
                /\ asy.tasks[t].pc = "fetch"
                /\ asy'.tasks[t].o = "fail" )
              => /\ asy.tasks[t].pid \in DOMAIN details'
                 /\ ~details'[asy.tasks[t].pid].extraction_success
                 /\ details'[asy.tasks[t].pid].error # NoneVal
                 /\ asy'.failed = asy.failed + 1
                 /\ C22_Accounting(asy') = C22_Accounting(asy)
                 /\ asy'.in_cooldown = asy.in_cooldown
                 /\ asy'.tasks[t].pc = "done"
        /\ ( /\ eng.pc = "loop" /\ eng'.pc # "off"
             /\ eng'.idx = eng.idx + 1
             /\ eng.cursor[eng.idx].property_id \in DOMAIN details'
             /\ details'[eng.cursor[eng.idx].property_id].error
                   = "Failed to fetch HTML" )
           => /\ ~details'[eng.cursor[eng.idx].property_id].extraction_success
              /\ eng'.failed = eng.failed + 1
              /\ C22_Accounting(eng') = C22_Accounting(eng)
              /\ eng'.pc = "loop" ]_vars

\* a fetch of the concurrent engine failed while the challenge streak
\* stood at the threshold minus one: the streak is still there
C22_Witness ==
    /\ asy.pc = "gather"
    /\ asy.consecutive_challenges = ASYNC_BOT_DETECTION_THRESHOLD - 1
    /\ asy.failed = 1
    /\ asy.cooldown_count = 0
    /\ \E t \in 1..Len(asy.tasks) :
          /\ asy.tasks[t].o = "fail"
          /\ asy.tasks[t].pc = "done"
          /\ asy.tasks[t].pid \in DOMAIN details
          /\ details[asy.tasks[t].pid].error = "Failed to fetch HTML"
          /\ \E u \in 1..Len(asy.tasks) :
                /\ asy.tasks[u].o = "challenge"
                /\ asy.tasks[u].pid \in DOMAIN details
                /\ details[asy.tasks[u].pid].scraped_at
                      <= details[asy.tasks[t].pid].scraped_at

(***************************************************************************)
(* C23.  A page classified Challenge.                                      *)
(***************************************************************************)
\* the Item of id pid is among those the pending query returns from coll
C23_Pending(coll, pid) ==
    \E k \in 1..Len(SelectPending(coll)) :
        SelectPending(coll)[k].property_id = pid

\* what a challenge step must leave behind for the Item of id pid
C23_After(pid) ==
    /\ pid \in DOMAIN details'
    /\ ~details'[pid].extraction_success
    /\ details'[pid].bot_challenge
    /\ details'[pid].extracted_data = "partial"
    /\ props' = props
    /\ \A i \in 1..Len(props') :
          props'[i].property_id = pid => ~props'[i].detail_scraped
    /\ C23_Pending(props', pid)

\* C23: the step in which a fetched page is classified Challenge stores a
\* record with extraction_success = FALSE, bot_challenge = TRUE and the
\* partial data, does not mark the Item, and leaves the Item among those
\* the pending query returns.
C23_ChallengeStep ==
    [][ /\ \A t \in 1..MaxBatch :
              ( /\ asy.pc = "gather" /\ asy'.pc = "gather"
                /\ t <= Len(asy.tasks)
                /\ asy.tasks[t].pc = "fetch"
                /\ asy'.bot_challenges = asy.bot_challenges + 1 )
              => (asy'.tasks[t].pc # "fetch" => C23_After(asy.tasks[t].pid))
        /\ ( /\ eng.pc = "loop" /\ eng'.pc # "off"
             /\ eng'.bot_challenges = eng.bot_challenges + 1 )
           => C23_After(eng.cursor[eng.idx].property_id) ]_vars

\* the concurrent engine has stored a challenge record for an Item that
\* is unmarked and pending, and its task has returned
C23_Witness ==
    /\ asy.pc = "gather"
    /\ \E t \in 1..Len(asy.tasks) :
          /\ asy.tasks[t].pc = "done"
          /\ asy.tasks[t].o = "challenge"
          /\ asy.tasks[t].pid \in DOMAIN details
          /\ details[asy.tasks[t].pid].bot_challenge
          /\ C23_Pending(props, asy.tasks[t].pid)

(***************************************************************************)
(* C24.  Marked Items have a successful record.                            *)
(***************************************************************************)
\* C24: every Item with detail_scraped = TRUE has a detail record of the
\* same id with extraction_success = TRUE.
C24_MarkedImpliesSuccess ==
    \A i \in 1..Len(props) :
        props[i].detail_scraped =>
            /\ props[i].property_id \in DOMAIN details
            /\ details[props[i].property_id].extraction_success

(***************************************************************************)
(* C25.  Consecutive-known counter of the incremental run.                 *)
(***************************************************************************)
\* C25: once the already-known items observed in a row, in page order
\* across the run, have reached the threshold, the run handles no further
\* item and begins no further page.
C25_StopsAtThreshold ==
    [][ (inc.pc # "off" /\ inc.known_streak >= CONSECUTIVE_EXISTING_LIMIT)
          => /\ inc'.k = inc.k \/ inc'.pc \in {"loop", "done"}
             /\ inc'.page_num = inc.page_num \/ inc'.pc = "done"
             /\ inc'.pc # "items" ]_vars

(***************************************************************************)
(* Empty pages.  One harvester run, in CSV mode or in location mode, over  *)
(* a feed of MaxEmptyPages pages, each of which comes back empty or        *)
(* invalid, or with the one listing of the feed.                           *)
(***************************************************************************)
MaxEmptyPages == 7   \* pages the run may walk

InitEmpty ==
    /\ now = 0
    /\ props = <<>>
    /\ details = <<>>
    /\ \E first \in { HarvestRun("csv", NoneVal, "Dubai/Dubai Marina",
                                  MaxEmptyPages, 1, {CapItem}),
                       HarvestRun("location", "dubai", "/",
                                  MaxEmptyPages, 1, {CapItem}) } :
          hrun = [h \in Runs |->
                    IF h = "h1" THEN first
                    ELSE [HarvestRun("location", "dubai", "/", 0, 0, {})
                            EXCEPT !.pc = "done"]]
    /\ inc = IdleInc
    /\ eng = IdleEng
    /\ asy = IdleAsy
    /\ netlog = <<>>
    /\ fed = <<>>

NextEmpty ==
    \/ \E h \in Runs : HPageEmpty(h)
    \/ \E h \in Runs : HPageItems(h)
    \/ \E h \in Runs : HWrite(h)
    \/ \E h \in Runs : HStop(h)

SpecEmpty == InitEmpty /\ [][NextEmpty]_vars

(***************************************************************************)
(* C26.  Five consecutive empty or invalid pages.                          *)
(***************************************************************************)
\* C26: a harvester run that has met CSV_EMPTY_LIMIT pages in a row
\* without items fetches no further page; the only step left to it is the
\* end of its page loop.
C26_StopsAfterFiveEmpty ==
    [][ \A h \in Runs :
          (hrun[h].pc = "fetch" /\ hrun[h].empty_streak >= CSV_EMPTY_LIMIT)
            => /\ hrun'[h].page = hrun[h].page
               /\ hrun'[h].pc \in {"fetch", "done"} ]_vars

(***************************************************************************)
(* C27.  A listing page that fails to fetch or parse.                      *)
(***************************************************************************)
\* C27: the step in which a run handles a listing page whose fetch or parse
\* failed writes nothing to the store, moves the run to the next page
\* (the page is not fetched again) and leaves the page loop running.
C27_PageErrorSkipped ==
    [][ /\ ( /\ inc.pc = "loop" /\ IncLoopOn(inc)
             /\ IncPage(inc).status = "error"
             /\ inc'.shutdown = inc.shutdown
             /\ inc' # inc )
           => /\ props' = props
              /\ inc'.page_num = inc.page_num + 1
              /\ inc'.pages_scraped = inc.pages_scraped + 1
              /\ inc'.pc = "loop"
        /\ \A h \in Runs :
              ( /\ HLoopOn(hrun[h])
                /\ hrun'[h] # hrun[h]
                /\ hrun'[h].pc # "write" )
              => /\ props' = props
                 /\ hrun'[h].page = hrun[h].page + 1
                 /\ hrun'[h].pc = "fetch" ]_vars

\* the first page of an incremental run failed, and the run went on to
\* insert a new listing from its second page
C27_Witness ==
    /\ inc.pc # "off"
    /\ inc.stream[1].status = "error"
    /\ Len(inc.hist) >= 2
    /\ inc.hist[1] = [new |-> 0, existing |-> 0]
    /\ inc.hist[2].new >= 1
    /\ Len(props) >= 1

(***************************************************************************)
(* C28.  An error raised by extraction on the detail path.                 *)
(***************************************************************************)
\* C28: the step in which extraction raises stores a record with
\* extraction_success = FALSE and the message, counts one more failed
\* item, and leaves the item loop or the batch running: the sequential
\* loop is at its next item, the other tasks of the batch are untouched.
C28_ExtractionErrorCaught ==
    [][ /\ ( /\ eng.pc = "loop" /\ eng'.pc # "off"
             /\ eng'.idx = eng.idx + 1
             /\ eng.cursor[eng.idx].property_id \in DOMAIN details'
             /\ details' # details
             /\ details'[eng.cursor[eng.idx].property_id].error
                   = "extraction error"
             /\ ~details'[eng.cursor[eng.idx].property_id].extraction_success )
           => /\ details'[eng.cursor[eng.idx].property_id].url
                   = eng.cursor[eng.idx].detailed_url
              /\ eng'.failed = eng.failed + 1
              /\ eng'.success = eng.success
              /\ eng'.pc = "loop"
              /\ eng'.cursor = eng.cursor
        /\ \A t \in 1..MaxBatch :
              ( /\ asy.pc = "gather" /\ asy'.pc # "off"
                /\ t <= Len(asy.tasks)
                /\ asy.tasks[t].pc = "fetch"
                /\ Len(asy'.tasks) = Len(asy.tasks)
                /\ asy'.tasks[t].o = "raise_extract" )
              => /\ asy.tasks[t].pid \in DOMAIN details'
                 /\ ~details'[asy.tasks[t].pid].extraction_success
                 /\ details'[asy.tasks[t].pid].error = "extraction error"
                 /\ asy'.failed = asy.failed + 1
                 /\ asy'.pc = "gather"
                 /\ asy'.tasks[t].pc = "done"
                 /\ \A u \in 1..Len(asy.tasks) :
                       u # t => asy'.tasks[u] = asy.tasks[u] ]_vars

\* extraction raised for the first Item of a sequential run and the run
\* went on to scrape the second Item
C28_Witness ==
    /\ eng.pc \in {"loop", "done"}
    /\ eng.runs = 1
    /\ eng.idx >= 3
    /\ eng.failed = 1
    /\ eng.success = 1
    /\ eng.cursor[1].property_id \in DOMAIN details
    /\ details[eng.cursor[1].property_id].error = "extraction error"
    /\ ~details[eng.cursor[1].property_id].extraction_success
    /\ eng.cursor[2].property_id \in DOMAIN details
    /\ details[eng.cursor[2].property_id].extraction_success

(***************************************************************************)
(* C29.  detail_scraped belongs to the Detail Fetch Engine.                *)
(***************************************************************************)
\* ids of the Items of coll that are marked detail-scraped
C29_Marked(coll) ==
    { coll[i].property_id : i \in { j \in 1..Len(coll) : coll[j].detail_scraped } }

\* C29: no step of a harvester, whatever it is interleaved with, takes the
\* detail_scraped mark away from an Item: an Item that is marked stays
\* marked.
C29_MarkNeverCleared ==
    [][ C29_Marked(props) \subseteq C29_Marked(props') ]_vars

(***************************************************************************)
(* Rounds of the concurrent engine.  A store of two full batches and one   *)
(* more Item, against a site that answers every detail GET with a          *)
(* challenge: the threshold is reached in the second batch and a third     *)
(* batch follows.                                                          *)
(***************************************************************************)
InitRounds ==
    /\ now = 0
    /\ props = StoreOf(2 * MaxBatch + 1)
    /\ details = <<>>
    /\ hrun = HarvestersDone
    /\ inc = IdleInc
    /\ eng = IdleEng
    /\ asy = AsyProcessState({"challenge"}, 0, 0, 1)
    /\ netlog = <<>>
    /\ fed = <<>>

NextRounds ==
    \/ AsyStart
    \/ AsyCollect
    \/ AsyCollectEnd
    \/ AsyBatchDone
    \/ \E t \in 1..MaxBatch : AsyTaskFind(t)
    \/ \E t \in 1..MaxBatch : AsyTaskFetched(t)
    \/ \E t \in 1..MaxBatch : AsyTaskChallenged(t)
    \/ \E t \in 1..MaxBatch : AsyTaskCooldownExpire(t)
    \/ AsyShutdown

SpecRounds == InitRounds /\ [][NextRounds]_vars

(***************************************************************************)
(* C30.  Rounds do not overlap.                                            *)
(***************************************************************************)
\* C30: whenever run() of the concurrent engine is outside the gather of a
\* batch (collecting the next batch, or ended), every task of the batch
\* before has finished and none is waiting in a cooldown.
C30_RoundsDoNotOverlap ==
    (asy.pc \in {"collect", "done"}) =>
        /\ \A t \in 1..Len(asy.tasks) : asy.tasks[t].pc = "done"
        /\ ~asy.in_cooldown

\* a task of the second batch waited in a cooldown, and the third batch
\* has started
C30_Witness ==
    /\ asy.pc = "gather"
    /\ asy.processed = 2 * MaxBatch
    /\ asy.cooldown_count >= 1
    /\ ~asy.in_cooldown
    /\ \E t \in 1..Len(asy.tasks) : asy.tasks[t].pc # "find"

(***************************************************************************)
(* The challenge classifier.  A page body is a sequence of characters, the *)
(* extracted data a dict from field names to values; a value is None, an   *)
(* int or a str.                                                           *)
(***************************************************************************)
MaxBodyLen == 5      \* characters of a page body

PyNone     == [type |-> "None", int |-> 0, str |-> ""]
PyInt(n)   == [type |-> "int",  int |-> n, str |-> ""]
PyStr(s)   == [type |-> "str",  int |-> 0, str |-> s]

\* bool(v)
Truthy(v) ==
    CASE v.type = "None" -> FALSE
      [] v.type = "int"  -> v.int # 0
      [] v.type = "str"  -> v.str # ""

\* d.get(field)
DictGet(d, field) == IF field \in DOMAIN d THEN d[field] ELSE PyNone

\* str.lower(), one character
LowerChar(c) == IF c = "R" THEN "r" ELSE c

lower(s) == [i \in 1..Len(s) |-> LowerChar(s[i])]

\* sub in s
Contains(s, sub) ==
    \E i \in 0..(Len(s) - Len(sub)) : \A k \in 1..Len(sub) : s[i + k] = sub[k]

essential_fields == {"price", "bedrooms", "headline", "locality"}

bot_indicators ==
    {
       <<"p", "l", "e", "a", "s", "e", " ", "v", "e", "r", "i", "f", "y", " ", "y", "o", "u", " ", "a", "r", "e", " ", "h", "u", "m", "a", "n">>,
       <<"c", "a", "p", "t", "c", "h", "a">>,
       <<"r", "o", "b", "o", "t">>,
       <<"c", "l", "o", "u", "d", "f", "l", "a", "r", "e">>,
       <<"a", "c", "c", "e", "s", "s", " ", "d", "e", "n", "i", "e", "d">>,
       <<"b", "l", "o", "c", "k", "e", "d">>,
       <<"r", "a", "t", "e", " ", "l", "i", "m", "i", "t">>,
       <<"t", "o", "o", " ", "m", "a", "n", "y", " ", "r", "e", "q", "u", "e", "s", "t", "s">>,
       <<"s", "u", "s", "p", "i", "c", "i", "o", "u", "s", " ", "a", "c", "t", "i", "v", "i", "t", "y">>
    }

_detect_bot_challenge(html, extracted_data) ==
    LET missing_fields ==
            Cardinality({ field \in essential_fields :
                             ~Truthy(DictGet(extracted_data, field)) })
        html_lower == lower(html)
    IN  IF missing_fields >= 3 THEN TRUE
        ELSE \E indicator \in bot_indicators : Contains(html_lower, indicator)

Bodies == UNION { [1..n -> {"r", "R", "o", "b", "t"}] : n \in 0..MaxBodyLen }

\* what extract_all can put under each essential field
FieldValues(field) ==
    CASE field = "price"    -> {PyInt(0), PyInt(5)}
      [] field = "bedrooms" -> {PyInt(0), PyInt(2)}
      [] field = "headline" -> {PyStr("x")}
      [] field = "locality" -> {PyStr("x")}

ExtractedDicts ==
    UNION { { d \in [fs -> UNION { FieldValues(f) : f \in fs }] :
                 \A f \in fs : d[f] \in FieldValues(f) } :
            fs \in SUBSET essential_fields }

\* the engine holds one fetched page and its extracted data
InitClassify ==
    /\ now = 0
    /\ props = <<>>
    /\ details = <<>>
    /\ hrun = HarvestersDone
    /\ inc = IdleInc
    /\ \E html \in Bodies, extracted_data \in ExtractedDicts :
          eng = [ pc             |-> "extracted",
                  html           |-> html,
                  extracted_data |-> extracted_data,
                  is_bot_challenge   |-> FALSE ]
    /\ asy = IdleAsy
    /\ netlog = <<>>
    /\ fed = <<>>

\* is_bot_challenge = self._detect_bot_challenge(html, extracted_data)
Detect ==
    /\ eng.pc = "extracted"
    /\ eng' = [eng EXCEPT
                 !.pc = "classified",
                 !.is_bot_challenge = _detect_bot_challenge(eng.html, eng.extracted_data)]
    /\ UNCHANGED <<now, props, details, hrun, inc, asy, netlog, fed>>

NextClassify == Detect

SpecClassify == InitClassify /\ [][NextClassify]_vars

(***************************************************************************)
(* C31.  Classifier rule.                                                  *)
(***************************************************************************)
C31_Absent(d) == Cardinality(essential_fields \ DOMAIN d)

\* C31: the classifier answers Challenge exactly when at least 3 of the 4
\* essential fields are absent from the extracted data or the body holds,
\* in any letter case, one of the indicator substrings.
C31_ChallengeIffRule ==
    eng.pc = "classified" =>
        (eng.is_bot_challenge <=>
            \/ C31_Absent(eng.extracted_data) >= 3
            \/ \E indicator \in bot_indicators :
                  Contains(lower(eng.html), indicator))

(***************************************************************************)
(* The two engines side by side.  Item 1 is the next document of a         *)
(* sequential run, Item 2 the only task of a batch of a concurrent run.    *)
(* Both runs are in mid-course with the same streak of challenges behind   *)
(* them (a streak below the sequential threshold: the sequential engine    *)
(* never holds more between two items), both Items have the same kind of   *)
(* earlier record, and the site gives both the same outcome.               *)
(***************************************************************************)
\* the record an earlier attempt on Item i left behind
TwinEarlier(i, kind) ==
    LET pid == StoreOf(i)[i].property_id
        row == NewDetail(pid)
    IN  CASE kind = "failed"     ->
                FailureSet(row, UrlOf(i), 0, "Failed to fetch HTML")
          [] kind = "challenged" ->
                ChallengeSet(row, UrlOf(i), 0, "partial")

TwinDetails(kind) ==
    IF kind = "none" THEN <<>>
    ELSE PutDetail(PutDetail(<<>>, TwinEarlier(1, kind)), TwinEarlier(2, kind))

InitTwin ==
    /\ now = 0
    /\ props = StoreOf(2)
    /\ hrun = HarvestersDone
    /\ inc = IdleInc
    /\ netlog = <<>>
    /\ fed = <<>>
    /\ \E kind \in {"none", "failed", "challenged"} : details = TwinDetails(kind)
    /\ \E o \in {"fail", "challenge", "normal", "raise_extract", "raise_late"},
          c \in 0..(BOT_DETECTION_THRESHOLD - 1) :
          /\ eng = [EngProcessState({o}, 0, 0, 1) EXCEPT
                      !.pc = "loop",
                      !.cursor = <<props[1]>>,
                      !.total = 1,
                      !.consecutive_challenges = c,
                      !.bot_challenges = c,
                      !.cls = [k \in 1..c |-> "Challenge"]]
          /\ asy = [AsyProcessState({o}, 0, 0, 1) EXCEPT
                      !.pc = "gather",
                      !.cursor = <<props[2]>>,
                      !.idx = 2,
                      !.total = 1,
                      !.tasks = <<AsyTask(props[2])>>,
                      !.after = "done",
                      !.consecutive_challenges = c,
                      !.bot_challenges = c]

NextTwin ==
    \/ EngProcess
    \/ EngCooldownExpire
    \/ EngFinish
    \/ AsyTaskFind(1)
    \/ AsyTaskFetched(1)
    \/ AsyTaskChallenged(1)
    \/ AsyTaskStored(1)
    \/ AsyTaskMarked(1)
    \/ AsyBatchDone
    \/ Tick

SpecTwin == InitTwin /\ [][NextTwin]_vars

(***************************************************************************)
(* C32.  Sequential and concurrent per-item logic.                         *)
(***************************************************************************)
\* both procedures have returned (a sequential cooldown included)
C32_BothReturned ==
    /\ eng.idx = 2 /\ eng.pc \in {"loop", "done"}
    /\ asy.pc = "done"

\* what a record says, apart from whose it is and when it was written
C32_Content(pid) ==
    IF pid \in DOMAIN details
    THEN [ extraction_success |-> details[pid].extraction_success,
           bot_challenge      |-> details[pid].bot_challenge,
           extracted_data     |-> details[pid].extracted_data,
           error              |-> details[pid].error ]
    ELSE [ extraction_success |-> FALSE, bot_challenge |-> FALSE,
           extracted_data |-> "no record", error |-> "no record" ]

C32_SameRecordAndFlag ==
    /\ C32_Content(props[1].property_id) = C32_Content(props[2].property_id)
    /\ props[1].detail_scraped = props[2].detail_scraped

\* the claim as stated: same record, same flag, same counter
C32_Original ==
    C32_BothReturned =>
        /\ C32_SameRecordAndFlag
        /\ eng.consecutive_challenges = asy.consecutive_challenges

\* C32: from the same streak, record and outcome, the concurrent engine with
\* a batch of one leaves the same record and the same detail_scraped flag as
\* the sequential engine, and the same counter unless the item is the
\* challenge that brings the streak to the sequential threshold (3): there
\* the sequential engine cools down and ends at 0, the concurrent engine
\* (threshold 5) ends at 3 without a cooldown.
C32_SameUpToThreshold ==
    C32_BothReturned =>
        /\ C32_SameRecordAndFlag
        /\ IF eng.cdlog = <<>>
           THEN eng.consecutive_challenges = asy.consecutive_challenges
           ELSE /\ eng.consecutive_challenges = 0
                /\ asy.consecutive_challenges = BOT_DETECTION_THRESHOLD
                /\ asy.cdlog = <<>>

\* both engines met a challenge on a streak of one and both count two
C32_Witness ==
    /\ C32_BothReturned
    /\ eng.cdlog = <<>>
    /\ eng.consecutive_challenges = 2
    /\ asy.consecutive_challenges = 2
    /\ C32_Content(props[2].property_id).bot_challenge

(***************************************************************************)
(* C33.  A successful record carries no trace of a failure.                *)
(***************************************************************************)
\* C33: no detail record has extraction_success = true together with
\* bot_challenge = true or with an error message.
C33_SuccessIsClean ==
    \A pid \in DOMAIN details :
        details[pid].extraction_success =>
            /\ ~details[pid].bot_challenge
            /\ details[pid].error = NoneVal

(***************************************************************************)
(* The extraction pool of the concurrent engine.  Here the step from the   *)
(* GET to the classification is taken apart: the GET returns, the          *)
(* extraction is submitted to the executor (position queued), a free       *)
(* worker thread takes it (position extract), the worker returns.          *)
(***************************************************************************)
MaxWorkers == 2      \* ThreadPoolExecutor(max_workers=10), scaled

\* positions of a task at which its coroutine has not returned
AsyInProgress(a) ==
    { t \in 1..Len(a.tasks) : a.tasks[t].pc # "done" }

\* extractions that a worker thread is executing
AsyExtracting(a) ==
    { t \in 1..Len(a.tasks) : a.tasks[t].pc = "extract" }

\* fetch_property_html returns: no HTML, or the HTML, which is handed to
\* loop.run_in_executor(self.executor, ...)
AsyTaskGot(t) ==
    \/ AsyTaskClassify(t, "fetch", {"fail"})
    \/ /\ asy.pc = "gather"
       /\ t \in 1..Len(asy.tasks)
       /\ asy.tasks[t].pc = "fetch"
       /\ asy' = [asy EXCEPT !.tasks[t].pc = "queued"]
       /\ UNCHANGED <<now, props, details, hrun, inc, eng, netlog, fed>>

\* an executor that starts a thread for every submitted extraction
AsyWorkerTake_Unbounded(t) ==
    /\ asy.pc = "gather"
    /\ t \in 1..Len(asy.tasks)
    /\ asy.tasks[t].pc = "queued"
    /\ asy' = [asy EXCEPT !.tasks[t].pc = "extract"]
    /\ UNCHANGED <<now, props, details, hrun, inc, eng, netlog, fed>>

\* a worker thread of the executor is free and takes the extraction
AsyWorkerTake(t) ==
    /\ asy.pc = "gather"
    /\ t \in 1..Len(asy.tasks)
    /\ asy.tasks[t].pc = "queued"
    /\ Cardinality(AsyExtracting(asy)) < MaxWorkers
    /\ asy' = [asy EXCEPT !.tasks[t].pc = "extract"]
    /\ UNCHANGED <<now, props, details, hrun, inc, eng, netlog, fed>>

\* extract_all returns or raises in its worker: classification of the page
AsyTaskExtracted(t) ==
    AsyTaskClassify(t, "extract", {"raise_extract", "challenge", "normal"})

InitPool ==
    /\ now = 0
    /\ props = StoreOf(MaxBatch + 1)
    /\ details = <<>>
    /\ hrun = HarvestersDone
    /\ inc = IdleInc
    /\ eng = IdleEng
    /\ asy = AsyProcessState({"normal", "fail"}, 0, 0, 1)
    /\ netlog = <<>>
    /\ fed = <<>>

NextPool ==
    \/ AsyStart
    \/ AsyCollect
    \/ AsyCollectEnd
    \/ AsyBatchDone
    \/ \E t \in 1..MaxBatch : AsyTaskFind(t)
    \/ \E t \in 1..MaxBatch : AsyTaskGot(t)
    \/ \E t \in 1..MaxBatch : AsyWorkerTake(t)
    \/ \E t \in 1..MaxBatch : AsyTaskExtracted(t)
    \/ \E t \in 1..MaxBatch : AsyTaskStored(t)
    \/ \E t \in 1..MaxBatch : AsyTaskMarked(t)

SpecPool == InitPool /\ [][NextPool]_vars

(***************************************************************************)
(* C34.  Bounds of the concurrent engine.                                  *)
(***************************************************************************)
\* C34: at most one batch of per-item procedures is in progress and at most
\* as many extractions execute as the executor has workers.
C34_BoundedConcurrency ==
    /\ Cardinality(AsyInProgress(asy)) <= MaxBatch
    /\ Len(asy.tasks) <= MaxBatch
    /\ Cardinality(AsyExtracting(asy)) <= MaxWorkers

\* a full batch is in progress, every worker is extracting, and a GET of
\* another task is still outstanding or its extraction waits for a worker
C34_Witness ==
    /\ Cardinality(AsyInProgress(asy)) = MaxBatch
    /\ Cardinality(AsyExtracting(asy)) = MaxWorkers
    /\ \E t \in 1..Len(asy.tasks) : asy.tasks[t].pc \in {"fetch", "queued"}

(***************************************************************************)
(* Identity resolution of bayut_csv_scraper.py next to that of             *)
(* bayut_ldjson_to_mongo.py.  The pattern of the CSV script is written     *)
(* r"details-(\\d+)\\.html": in a raw string each \\ is a literal          *)
(* backslash, so the pattern reads "details-", a backslash, one or more    *)
(* letters d, a backslash, any character, "html".  The token "\\" stands   *)
(* for one backslash and "d" for the letter d.                             *)
(***************************************************************************)
RECURSIVE LetterDRun(_, _)
LetterDRun(u, j) ==
    IF j <= Len(u) /\ u[j] = "d" THEN 1 + LetterDRun(u, j + 1) ELSE 0

\* positions where r"details-(\\d+)\\.html" matches
CSV_DETAIL_ID_RE(u) ==
    { i \in 1..Len(u) :
        /\ u[i] = "details-"
        /\ i + 1 <= Len(u)
        /\ u[i + 1] = "\\"
        /\ LetterDRun(u, i + 2) >= 1
        /\ i + LetterDRun(u, i + 2) + 3 <= Len(u)
        /\ u[i + LetterDRun(u, i + 2) + 2] = "\\"
        /\ u[i + LetterDRun(u, i + 2) + 3] = ".html" }

\* property_id_from_url of bayut_csv_scraper.py
csv_property_id_from_url(u) ==
    IF u = NoUrl THEN NoneVal
    ELSE IF CSV_DETAIL_ID_RE(u) = {} THEN NoneVal
    ELSE LET i == CHOOSE k \in CSV_DETAIL_ID_RE(u) :
                      \A m \in CSV_DETAIL_ID_RE(u) : k <= m
         IN  Flatten(SubSeq(u, i + 1, i + 1 + LetterDRun(u, i + 2)))

\* doc_from_item of bayut_csv_scraper.py: the property_id of the document
csv_doc_from_item(item) ==
    LET pid  == csv_property_id_from_url(item.url)
        full == IF item.url # NoUrl THEN item.url ELSE JsonDumps(item)
        base == SubSeq(full, 1, Min(Len(full), HASH_BASE_LIMIT))
    IN  IF pid = NoneVal THEN "hash_" \o Md5Hex(base) ELSE pid

CsvUrls ==
    UNION { [1..n -> {"details-", ".html", "\\", "d", "1", "7"}] :
            n \in 0..MaxUrlLen }

\* one listing is handed to doc_from_item of each script
InitCsv ==
    /\ now = 0
    /\ props = <<>>
    /\ details = <<>>
    /\ \E u \in CsvUrls :
          hrun = [h \in Runs |->
                    [ pc     |-> "page",
                      script |-> IF h = "h1" THEN "bayut_ldjson_to_mongo"
                                 ELSE "bayut_csv_scraper",
                      item   |-> [url |-> u, price |-> 10],
                      property_id |-> NoneVal ]]
    /\ inc = IdleInc
    /\ eng = IdleEng
    /\ asy = IdleAsy
    /\ netlog = <<>>
    /\ fed = <<>>

\* items = [doc_from_item(e, page, fetched_at, ...) for e in elts]
LdDocFromItem ==
    /\ hrun["h1"].pc = "page"
    /\ hrun' = [hrun EXCEPT !["h1"].pc = "docs",
                            !["h1"].property_id = PidOf(hrun["h1"].item)]
    /\ UNCHANGED <<now, props, details, inc, eng, asy, netlog, fed>>

CsvDocFromItem ==
    /\ hrun["h2"].pc = "page"
    /\ hrun' = [hrun EXCEPT !["h2"].pc = "docs",
                            !["h2"].property_id = csv_doc_from_item(hrun["h2"].item)]
    /\ UNCHANGED <<now, props, details, inc, eng, asy, netlog, fed>>

NextCsv == LdDocFromItem \/ CsvDocFromItem

SpecCsv == InitCsv /\ [][NextCsv]_vars

(***************************************************************************)
(* C35.  The CSV-driven scraper resolves ids as the location harvester.    *)
(***************************************************************************)
\* the url holds details-<digits>.html: the digits of its first occurrence
C35_DigitsOf(u) ==
    LET at == { i \in 1..Len(u) :
                  /\ u[i] = "details-"
                  /\ \E j \in (i + 2)..Len(u) :
                        /\ u[j] = ".html"
                        /\ \A k \in (i + 1)..(j - 1) : u[k] \in Digits }
    IN  IF at = {} THEN NoneVal
        ELSE LET i == CHOOSE k \in at : \A m \in at : k <= m
                 j == CHOOSE k \in (i + 2)..Len(u) :
                         u[k] = ".html" /\ \A m \in (i + 1)..(k - 1) : u[m] \in Digits
             IN  Flatten(SubSeq(u, i + 1, j - 1))

\* C35: for one listing both scripts produce the same id, and when the url
\* holds details-<digits>.html that id is the digit string.
C35_SameIdAsLdjson ==
    (hrun["h1"].pc = "docs" /\ hrun["h2"].pc = "docs") =>
        /\ hrun["h1"].property_id = hrun["h2"].property_id
        /\ C35_DigitsOf(hrun["h2"].item.url) # NoneVal =>
              hrun["h2"].property_id = C35_DigitsOf(hrun["h2"].item.url)

(***************************************************************************)
(* C36.  A cooldown cut short by a shutdown signal.                        *)
(***************************************************************************)
\* the sequential engine leaves a cooldown during which shutdown was set
C36_CutShort == eng.pc = "cooldown" /\ eng.shutdown /\ eng'.pc # "cooldown"

\* C36: a cooldown of the sequential engine that a shutdown signal cuts
\* short changes neither the cooldown duration nor the challenge counter,
\* and once shutdown is set and the engine is out of the cooldown it issues
\* no detail GET any more.
C36_InterruptedCooldownFrame ==
    [][ /\ C36_CutShort =>
              /\ eng'.current_cooldown = eng.current_cooldown
              /\ eng'.consecutive_challenges = eng.consecutive_challenges
        /\ (eng.pc \in {"loop", "done"} /\ eng.shutdown
              /\ eng.consecutive_challenges >= BOT_DETECTION_THRESHOLD) =>
              netlog' = netlog ]_vars

\* the run has ended after a cooldown that was cut short: the counter is
\* still at the threshold, the duration is the initial one, and pending
\* Items are left that were never requested
C36_Witness ==
    /\ eng.pc = "done"
    /\ eng.shutdown
    /\ eng.cooldown_count = 1
    /\ eng.consecutive_challenges = BOT_DETECTION_THRESHOLD
    /\ eng.current_cooldown = INITIAL_COOLDOWN
    /\ eng.idx <= Len(eng.cursor)
    /\ \E i \in 1..Len(props) : props[i].property_id \notin DOMAIN netlog

(***************************************************************************)
(* Early stop of the incremental run.  An earlier harvest found listings 1 *)
(* and 2; the first page of the feed carries up to four listings, two of   *)
(* them not yet stored, in any order, and a second page follows.           *)
(***************************************************************************)
UrlD == <<"/property/", "details-", "4", ".html">>

EarlyItems == IncItems \cup { [url |-> UrlD, price |-> 10] }

EarlyPages ==
    { [status |-> "ok", elts |-> e] :
        e \in { f \in UNION { [1..n -> EarlyItems] :
                                n \in 0..Min(MaxIncPageLen + 1, 4) } :
                  Injective(f) } }

EarlyStore ==
    << InsertedItem(doc_from_item([url |-> UrlA, price |-> 10], 1, 1, 0,
                                  "dubai", "/")),
       InsertedItem(doc_from_item([url |-> UrlB, price |-> 10], 2, 1, 0,
                                  "dubai", "/")) >>

InitEarly ==
    /\ now = 0
    /\ props = EarlyStore
    /\ details = <<>>
    /\ hrun = HarvestersDone
    /\ \E pg \in EarlyPages :
          inc = IncRun(<< pg, [status |-> "ok",
                               elts |-> << [url |-> UrlD, price |-> 10] >>] >>, 2)
    /\ eng = IdleEng
    /\ asy = IdleAsy
    /\ netlog = <<>>
    /\ fed = <<>>

NextEarly ==
    \/ IncPageNothing
    \/ IncPageBegin
    \/ IncItem
    \/ IncWrite
    \/ IncPageDone
    \/ IncFinish
    \/ IncShutdown
    \/ Tick

SpecEarly == InitEarly /\ [][NextEarly]_vars

(***************************************************************************)
(* C37.  New items of a page that ends in an early stop.                   *)
(***************************************************************************)
\* C37: when _process_properties has returned, every listing it handled on
\* the page, up to the one that reached the threshold, has its Item in the
\* store: what was classified new before the break was upserted.
C37_NewItemsWritten ==
    inc.pc \in {"loop", "done"} =>
        \A p \in 1..Len(inc.hist) :
            \A j \in 1..(inc.hist[p].new + inc.hist[p].existing) :
                \E i \in 1..Len(props) :
                    props[i].detailed_url = inc.stream[p].elts[j].url

\* the run stopped on the first page after a new listing and two known
\* ones, with a fourth listing left unhandled, and the new listing is stored
C37_Witness ==
    /\ inc.pc = "done"
    /\ inc.reason = "consecutive_existing"
    /\ Len(inc.hist) = 1
    /\ inc.hist[1].new >= 1
    /\ inc.hist[1].new + inc.hist[1].existing < Len(inc.stream[1].elts)
    /\ Len(props) = Len(EarlyStore) + inc.hist[1].new

(***************************************************************************)
(* A detail run to its end.  One run of either engine, with a limit and a  *)
(* skip, over a store of pending Items; every GET returns the page, no     *)
(* page is a challenge, no signal arrives; extract_all may raise.  The     *)
(* process is never suspended for good: a step that can be taken is taken  *)
(* (the interpreter runs the loop, the event loop runs every ready task).  *)
(***************************************************************************)
InitTerm ==
    /\ now = 0
    /\ props = StoreOf(MaxBatch + 1)
    /\ details = <<>>
    /\ hrun = HarvestersDone
    /\ inc = IdleInc
    /\ \E limit \in {0, 2}, skip \in {0, 1} :     \* limit 0: no limit
          LET env == {"normal", "raise_extract"}
          IN  \/ eng = EngProcessState(env, limit, skip, 1) /\ asy = IdleAsy
              \/ asy = AsyProcessState(env, limit, skip, 1) /\ eng = IdleEng
    /\ netlog = <<>>
    /\ fed = <<>>

NextTerm ==
    \/ EngStart
    \/ EngProcess
    \/ EngFinish
    \/ AsyStart
    \/ AsyCollect
    \/ AsyCollectEnd
    \/ AsyBatchDone
    \/ \E t \in 1..MaxBatch : AsyTaskFind(t)
    \/ \E t \in 1..MaxBatch : AsyTaskFetched(t)
    \/ \E t \in 1..MaxBatch : AsyTaskStored(t)
    \/ \E t \in 1..MaxBatch : AsyTaskMarked(t)

SpecTerm == InitTerm /\ [][NextTerm]_vars /\ WF_vars(NextTerm)

(***************************************************************************)
(* C38.  Termination of a detail run.                                      *)
(***************************************************************************)
\* the engine that runs
C38_Run == IF eng.pc # "off" THEN eng ELSE asy

C38_Terminated == C38_Run.pc = "done"

\* every Item that the cursor of the run selected is marked
C38_SelectedMarked ==
    \A k \in 1..Len(C38_Run.cursor) :
        \E i \in 1..Len(props) :
            /\ props[i].property_id = C38_Run.cursor[k].property_id
            /\ props[i].detail_scraped

====
